---- MODULE Spec2Model ----
(***************************************************************************)
(* A model of ardite-core: schema/query validation (schema/schema.rs),     *)
(* the query types (query.rs), the dynamic value model (value.rs), the     *)
(* driver trait with its default read_one (driver/mod.rs), the in-memory   *)
(* reference driver (driver/memory.rs) and the service front (service.rs). *)
(*                                                                         *)
(* Strings that the code inspects character by character (keys) are        *)
(* sequences of one-character strings; a LinearMap is a sequence of        *)
(* <<key, value>> pairs with pairwise different keys, in insertion order.  *)
(***************************************************************************)
EXTENDS Integers, Sequences, FiniteSets, TLC

VARIABLES
  schema,      \* the Schema handed to validate_query
  query,       \* the Query handed to validate_query
  vq_result,   \* <<>> before the call, <<r>> once validate_query returned r
  store,       \* Memory.store: collection name -> Option<Vec<Object>>
  poisoned,    \* the Mutex around the store is poisoned (a thread panicked holding it)
  definition,  \* Service.definition
  drivers,     \* Service.drivers: the driver configs that are connected
  call,        \* the last operation: its arguments, what it did, what it returned
  threads,     \* thread -> where it is inside a Memory operation, and that operation
  mutex,       \* the thread that holds the Mutex around the store: <<>> or <<t>>
  input,       \* the arguments of a run of one function of value.rs, schema.rs, mongodb.rs
  output       \* <<>> before that function returned, <<r>> once it returned r

vars ==
  <<schema, query, vq_result, store, poisoned, definition, drivers, call,
    threads, mutex, input, output>>

----------------------------------------------------------------------------
(* Keys *)

AsciiDigits == {"0", "1", "2", "3", "4", "5", "6", "7", "8", "9"}

\* The regex crate's \d is the Unicode class Nd; "u0663" stands for the one
\* character U+0663 (ARABIC-INDIC DIGIT THREE), a decimal digit outside ASCII.
UnicodeDigits == AsciiDigits \cup {"u0663"}

\* INTEGER_RE.is_match(key) for the pattern ^\d+$
INTEGER_RE_unanchored(key) ==
  \E i \in 1..Len(key) : key[i] \in UnicodeDigits

INTEGER_RE_is_match(key) ==
  /\ Len(key) > 0
  /\ \A i \in 1..Len(key) : key[i] \in UnicodeDigits

K_1   == <<"1">>
K_42  == <<"4", "2">>
K_a   == <<"a">>
K_1a  == <<"1", "a">>
K_u3  == <<"u0663">>
K_nil == <<>>

----------------------------------------------------------------------------
(* LinearMap *)

Range(seq) == {seq[i] : i \in 1..Len(seq)}

LM_keys(map) == [i \in 1..Len(map) |-> map[i][1]]

LM_contains_key(map, key) == \E i \in 1..Len(map) : map[i][1] = key

\* LinearMap::get: the value of the entry whose key is `key` (callers test
\* LM_contains_key first, as the code tests the Option).
LM_get(map, key) ==
  map[CHOOSE i \in 1..Len(map) : map[i][1] = key /\ \A j \in 1..(i - 1) : map[j][1] # key][2]

\* every sequence of at most n entries over keys/values with distinct keys
RECURSIVE LinearMaps(_, _, _)
LinearMaps(keys, values, n) ==
  IF n = 0 \/ keys = {} THEN {<<>>}
  ELSE {<<>>} \cup
       UNION {{<<(<<k, v>>)>> \o rest : rest \in LinearMaps(keys \ {k}, values, n - 1)}
                : <<k, v>> \in keys \X values}

----------------------------------------------------------------------------
(* Error *)

Ok == [ok |-> TRUE]

\* Error::validation: code BadRequest, a message and a hint.  The message is
\* the sequence of the pieces format! concatenates; each piece is a sequence
\* of characters or a literal kept whole.
Error_validation(message, hint) ==
  [ok |-> FALSE, code |-> "BadRequest", message |-> message, hint |-> hint]

NO_PRIMITIVE_HINT ==
  "Try not querying specific properties of a primitive like null or boolean."

MessageContains(result, piece) ==
  /\ ~result.ok
  /\ \E i \in 1..Len(result.message) : result.message[i] = piece

----------------------------------------------------------------------------
(* Schema and Query *)

Schema_none    == [type |-> "None"]
Schema_null    == [type |-> "Null"]
Schema_boolean == [type |-> "Boolean"]
Schema_number  == [type |-> "Number"]
Schema_string  == [type |-> "String"]
Schema_enum    == [type |-> "Enum"]
Schema_array(items) == [type |-> "Array", items |-> items]
Schema_object(properties, additional_properties) ==
  [type |-> "Object", properties |-> properties,
   additional_properties |-> additional_properties]

PrimitiveTypes == {"Null", "Boolean", "Number", "String", "Enum"}

Query_All == [q |-> "All"]
Query_Keys(keys) == [q |-> "Keys", keys |-> keys]

\* .find(|r| r.is_err()) over the mapped keys: the first Err in iteration
\* order, None when there is none; the match turns None into Ok(()).
find_is_err_last(results) ==
  LET errs == {i \in 1..Len(results) : ~results[i].ok}
  IN IF errs = {} THEN Ok
     ELSE results[CHOOSE i \in errs : \A j \in errs : j <= i]

find_is_err(results) ==
  LET errs == {i \in 1..Len(results) : ~results[i].ok}
  IN IF errs = {} THEN Ok
     ELSE results[CHOOSE i \in errs : \A j \in errs : i <= j]

RECURSIVE validate_query(_, _)

\* the closure of the Array arm, for one key
validate_array_key_ascii(items, query_properties, key) ==
  IF Len(key) > 0 /\ \A i \in 1..Len(key) : key[i] \in AsciiDigits
  THEN validate_query(items, LM_get(query_properties, key))
  ELSE Error_validation(
         << <<"Cannot query non-integer \"">>, key, <<"\" array property.">> >>,
         "Only query integer array keys like 1, 2, and 3.")

validate_array_key(items, query_properties, key) ==
  IF INTEGER_RE_is_match(key)
  THEN validate_query(items, LM_get(query_properties, key))
  ELSE Error_validation(
         << <<"Cannot query non-integer \"">>, key, <<"\" array property.">> >>,
         "Only query integer array keys like 1, 2, and 3.")

\* the closure of the Object arm, for one key
validate_object_key_lax(properties, additional_properties, query_properties, key) ==
  IF LM_contains_key(properties, key)
  THEN validate_query(LM_get(properties, key), LM_get(query_properties, key))
  ELSE Ok

validate_object_key_shallow(properties, additional_properties, query_properties, key) ==
  IF additional_properties
  THEN Ok
  ELSE IF LM_contains_key(properties, key)
  THEN validate_query(LM_get(properties, key), LM_get(query_properties, key))
  ELSE Error_validation(
         << <<"Cannot query object property \"">>, key, <<"\".">> >>,
         "Query an object property that is defined in the schema.")

validate_object_key(properties, additional_properties, query_properties, key) ==
  IF LM_contains_key(properties, key)
  THEN validate_query(LM_get(properties, key), LM_get(query_properties, key))
  ELSE IF additional_properties
  THEN Ok
  ELSE Error_validation(
         << <<"Cannot query object property \"">>, key, <<"\".">> >>,
         "Query an object property that is defined in the schema.")

\* the arms of validate_query that do not recurse: a primitive schema with a
\* Keys query, and the catch-all (None, _) | (_, All)
validate_leaf_empty_ok(type, q) ==
  IF type \in PrimitiveTypes /\ q.q = "Keys" /\ Len(q.keys) > 0
  THEN Error_validation(<< <<"Cannot deeply query">> >>, NO_PRIMITIVE_HINT)
  ELSE Ok

validate_leaf(type, q) ==
  CASE type = "Null" /\ q.q = "Keys" ->
         Error_validation(<< <<"Cannot deeply query">>, <<" null.">> >>, NO_PRIMITIVE_HINT)
    [] type = "Boolean" /\ q.q = "Keys" ->
         Error_validation(<< <<"Cannot deeply query">>, <<" a boolean.">> >>, NO_PRIMITIVE_HINT)
    [] type = "Number" /\ q.q = "Keys" ->
         Error_validation(<< <<"Cannot deeply query">>, <<" a number.">> >>, NO_PRIMITIVE_HINT)
    [] type = "String" /\ q.q = "Keys" ->
         Error_validation(<< <<"Cannot deeply query">>, <<" a string.">> >>, NO_PRIMITIVE_HINT)
    [] type = "Enum" /\ q.q = "Keys" ->
         Error_validation(<< <<"Cannot deeply query">>, <<" an enum.">> >>, NO_PRIMITIVE_HINT)
    [] OTHER -> Ok

validate_query(s, q) ==
  CASE s.type = "Array" /\ q.q = "Keys" ->
         find_is_err([i \in 1..Len(q.keys) |->
                        validate_array_key(s.items, q.keys, q.keys[i][1])])
    [] s.type = "Object" /\ q.q = "Keys" ->
         find_is_err([i \in 1..Len(q.keys) |->
                        validate_object_key(s.properties, s.additional_properties,
                                            q.keys, q.keys[i][1])])
    [] OTHER -> validate_leaf(s.type, q)

----------------------------------------------------------------------------
(* Value: a record tagged by t; each variant keeps its payload in a field of
   its own name, so that two values of different variants are simply unequal *)

Value_Null        == [t |-> "Null"]
Value_Boolean(b)  == [t |-> "Boolean", b |-> b]
Value_I64(n)      == [t |-> "I64", i |-> n]
\* an F64 that is a whole number; NaN is not represented
Value_F64(n)      == [t |-> "F64", f |-> n]
\* the payload of a String is its sequence of code points
Value_String(cs)  == [t |-> "String", s |-> cs]
Value_Object(o)   == [t |-> "Object", o |-> o]
Value_Array(a)    == [t |-> "Array", a |-> a]

\* Option<T>: <<>> is None, <<x>> is Some(x)
None == <<>>
Some(x) == <<x>>

\* str::parse::<usize> on a key of ASCII digits (the keys of the model are far
\* shorter than the 20 digits at which the parse overflows)
RECURSIVE DecimalValue(_)
DecimalValue(key) ==
  IF Len(key) = 0 THEN 0
  ELSE 10 * DecimalValue(SubSeq(key, 1, Len(key) - 1))
       + (CHOOSE d \in 0..9 : ToString(d) = key[Len(key)])

\* an optional "+" and then at least one ASCII digit
parse_usize(key) ==
  LET digits == IF Len(key) > 0 /\ key[1] = "+" THEN Tail(key) ELSE key
  IN IF Len(digits) > 0 /\ \A i \in 1..Len(digits) : digits[i] \in AsciiDigits
     THEN Some(DecimalValue(digits))
     ELSE None

Value_get_object_only(value, key) ==
  IF value.t = "Object" /\ LM_contains_key(value.o, key)
  THEN Some(LM_get(value.o, key)) ELSE None

\* Value::get(key)
Value_get(value, key) ==
  CASE value.t = "Object" ->
         IF LM_contains_key(value.o, key) THEN Some(LM_get(value.o, key)) ELSE None
    [] value.t = "Array" ->
         LET i == parse_usize(key)
         IN IF i # None /\ i[1] < Len(value.a) THEN Some(value.a[i[1] + 1]) ELSE None
    [] OTHER -> None

\* Value::get_path(path): the fold of get over the keys
RECURSIVE Value_get_path(_, _)
Value_get_path(value, path) ==
  IF Len(path) = 0 THEN Some(value)
  ELSE LET head == Value_get(value, path[1])
       IN IF head = None THEN None ELSE Value_get_path(head[1], Tail(path))

\* Ordering of two integers / of two sequences of code points
IntCmp(a, b) == IF a < b THEN "Less" ELSE IF a > b THEN "Greater" ELSE "Equal"

RECURSIVE StrCmp(_, _)
StrCmp(a, b) ==
  CASE Len(a) = 0 /\ Len(b) = 0 -> "Equal"
    [] Len(a) = 0 /\ Len(b) > 0 -> "Less"
    [] Len(a) > 0 /\ Len(b) = 0 -> "Greater"
    [] OTHER -> IF a[1] = b[1] THEN StrCmp(Tail(a), Tail(b)) ELSE IntCmp(a[1], b[1])

BoolCmp(a, b) == IntCmp(IF a THEN 1 ELSE 0, IF b THEN 1 ELSE 0)

\* PartialOrd for Value: Some(ordering) for two values of the same variant
\* among Null, Boolean, I64, F64 and String, None otherwise
Value_partial_cmp(a, b) ==
  CASE a.t = "Null" /\ b.t = "Null" -> Some("Equal")
    [] a.t = "Boolean" /\ b.t = "Boolean" -> Some(BoolCmp(a.b, b.b))
    [] a.t = "I64" /\ b.t = "I64" -> Some(IntCmp(a.i, b.i))
    [] a.t = "F64" /\ b.t = "F64" -> Some(IntCmp(a.f, b.f))
    [] a.t = "String" /\ b.t = "String" -> Some(StrCmp(a.s, b.s))
    [] OTHER -> None

----------------------------------------------------------------------------
(* Condition, Sort, Range *)

Condition_True         == [c |-> "True"]
Condition_False        == [c |-> "False"]
Condition_Not(cond)    == [c |-> "Not", cond |-> cond]
Condition_And(conds)   == [c |-> "And", conds |-> conds]
Condition_Or(conds)    == [c |-> "Or", conds |-> conds]
Condition_Key(k, cond) == [c |-> "Key", key |-> k, cond |-> cond]
Condition_Equal(value) == [c |-> "Equal", value |-> value]
\* Condition::Keys(LinearMap<Key, Condition>), the variant driver/mongodb.rs
\* compiles: a conjunction of per-key sub-conditions
Condition_Keys(keys)   == [c |-> "Keys", keys |-> keys]

\* the F64s that are no numbers of JSON: NaN and the positive infinity
Value_F64_NaN      == [t |-> "F64", nan |-> TRUE]
Value_F64_Infinity == [t |-> "F64", inf |-> TRUE]
F64_is_nan(a)    == "nan" \in DOMAIN a
F64_is_finite(a) == "f" \in DOMAIN a

\* PartialEq of Value (derived): the same variant and equal payloads; two
\* Objects are equal as LinearMaps, when they have as many entries and every
\* entry of the one has an equal value under the same key in the other,
\* whatever the order
RECURSIVE Value_eq(_, _)
Value_eq(a, b) ==
  /\ a.t = b.t
  /\ CASE a.t = "Object" ->
            /\ Len(a.o) = Len(b.o)
            /\ \A i \in 1..Len(a.o) : \E j \in 1..Len(b.o) :
                 a.o[i][1] = b.o[j][1] /\ Value_eq(a.o[i][2], b.o[j][2])
       [] a.t = "Array" ->
            /\ Len(a.a) = Len(b.a)
            /\ \A i \in 1..Len(a.a) : Value_eq(a.a[i], b.a[i])
       [] a.t = "F64" -> ~F64_is_nan(a) /\ ~F64_is_nan(b) /\ a = b
       [] OTHER -> a = b

RECURSIVE is_true_lenient(_, _)
is_true_lenient(cond, value) ==
  CASE cond.c = "True" -> TRUE
    [] cond.c = "False" -> FALSE
    [] cond.c = "Not" -> ~is_true_lenient(cond.cond, value)
    [] cond.c = "And" -> \A i \in 1..Len(cond.conds) : is_true_lenient(cond.conds[i], value)
    [] cond.c = "Or" -> \E i \in 1..Len(cond.conds) : is_true_lenient(cond.conds[i], value)
    [] cond.c = "Key" ->
         LET sub == Value_get(value, cond.key)
         IN IF sub = None THEN TRUE ELSE is_true_lenient(cond.cond, sub[1])
    [] cond.c = "Keys" ->
         \A i \in 1..Len(cond.keys) :
           LET sub == Value_get(value, cond.keys[i][1])
           IN IF sub = None THEN TRUE ELSE is_true_lenient(cond.keys[i][2], sub[1])
    [] cond.c = "Equal" -> Value_eq(value, cond.value)

\* Condition::is_true / is_false
RECURSIVE is_true(_, _)
is_true(cond, value) ==
  CASE cond.c = "True" -> TRUE
    [] cond.c = "False" -> FALSE
    [] cond.c = "Not" -> ~is_true(cond.cond, value)
    [] cond.c = "And" -> \A i \in 1..Len(cond.conds) : is_true(cond.conds[i], value)
    [] cond.c = "Or" -> \E i \in 1..Len(cond.conds) : is_true(cond.conds[i], value)
    [] cond.c = "Key" ->
         LET sub == Value_get(value, cond.key)
         IN IF sub = None THEN FALSE ELSE is_true(cond.cond, sub[1])
    [] cond.c = "Keys" ->
         \A i \in 1..Len(cond.keys) :
           LET sub == Value_get(value, cond.keys[i][1])
           IN IF sub = None THEN FALSE ELSE is_true(cond.keys[i][2], sub[1])
    [] cond.c = "Equal" -> Value_eq(value, cond.value)

is_false(cond, value) == ~is_true(cond, value)

\* Condition::is_object_true(object): the condition on the object as a Value
is_object_true(cond, object) == is_true(cond, Value_Object(object))

\* Sort { property, ascending }
Sort_new(property, ascending) == [property |-> property, ascending |-> ascending]

Reverse(ord) ==
  CASE ord = "Less" -> "Greater" [] ord = "Greater" -> "Less" [] OTHER -> ord

\* Sort::partial_cmp(a, b): the values at the rule's property compared as
\* Values, reversed for a descending rule; None when they cannot be ordered
Sort_partial_cmp(sort, a, b) ==
  LET va == Value_get_path(Value_Object(a), sort.property)
      vb == Value_get_path(Value_Object(b), sort.property)
  IN IF va = None \/ vb = None THEN None
     ELSE LET ord == Value_partial_cmp(va[1], vb[1])
          IN IF ord = None THEN None
             ELSE IF sort.ascending THEN ord ELSE Some(Reverse(ord[1]))

UsizeMax == 7    \* usize::MAX of the model: usize is scaled down to 3 bits

\* Range::new(offset, limit), both Option<usize>
Range_new(offset, limit) == [limit |-> limit, offset |-> offset]
Range_default == Range_new(None, None)

unwrap_or(opt, default) == IF opt = None THEN default ELSE opt[1]

\* GenericRange::start
Range_start(range) == Some(unwrap_or(range.offset, 0))

\* the usize sum of GenericRange::end overflows
Range_end_overflows(range) ==
  range.limit # None /\ unwrap_or(range.offset, 0) + range.limit[1] > UsizeMax

\* GenericRange::end; the usize `+` wraps in a build without overflow checks
Range_end(range) ==
  IF range.limit = None THEN None
  ELSE Some((unwrap_or(range.offset, 0) + range.limit[1]) % (UsizeMax + 1))

----------------------------------------------------------------------------
(* Results *)

Error_not_found == [ok |-> FALSE, code |-> "NotFound"]
Error_internal  == [ok |-> FALSE, code |-> "Internal"]
\* a panic of the calling thread: no Result is returned
Panic           == [ok |-> FALSE, code |-> "panic"]

OkValues(values) == [ok |-> TRUE, values |-> values]
OkValue(value)   == [ok |-> TRUE, value |-> value]

----------------------------------------------------------------------------
(* Memory driver *)

Min(a, b) == IF a <= b THEN a ELSE b

\* Itertools::slice(range): the elements whose 0-based index i satisfies
\* start <= i < end (to the end of the iterator when end is None)
slice(seq, start, end) ==
  LET n == Len(seq)
      from == Min(unwrap_or(start, 0), n)
      to == IF end = None THEN n ELSE Min(end[1], n)
  IN SubSeq(seq, from + 1, to)

\* the closure handed to sorted_by: the first rule whose partial_cmp is Some
\* decides (Option::or_else), Ordering::Equal when every rule gives None
RECURSIVE sort_fold(_, _, _)
sort_fold(sorts, a, b) ==
  IF Len(sorts) = 0 THEN "Equal"
  ELSE LET ord == Sort_partial_cmp(sorts[1], a, b)
       IN IF ord # None THEN ord[1] ELSE sort_fold(Tail(sorts), a, b)

\* Itertools::sorted_by: collect and slice::sort_by, a stable sort; on the
\* short vectors of the model the standard library sorts by insertion, moving
\* each element left while it compares Less than its left neighbour
RECURSIVE insert_sorted(_, _, _)
insert_sorted(sorted, x, sorts) ==
  IF Len(sorted) = 0 THEN <<x>>
  ELSE IF sort_fold(sorts, x, sorted[Len(sorted)]) = "Less"
  THEN Append(insert_sorted(SubSeq(sorted, 1, Len(sorted) - 1), x, sorts), sorted[Len(sorted)])
  ELSE Append(sorted, x)

RECURSIVE sorted_by(_, _)
sorted_by(seq, sorts) ==
  IF Len(seq) = 0 THEN <<>>
  ELSE insert_sorted(sorted_by(SubSeq(seq, 1, Len(seq) - 1), sorts), seq[Len(seq)], sorts)

\* the iterator chain of Memory::read over the objects of one collection
Memory_read_chain_unsliced(objects, cond, sorts, range) ==
  sorted_by(SelectSeq(objects, LAMBDA object : is_object_true(cond, object)), sorts)

Memory_read_chain(objects, cond, sorts, range) ==
  LET filtered == SelectSeq(objects, LAMBDA object : is_object_true(cond, object))
      sliced == slice(filtered, Range_start(range), Range_end(range))
  IN sorted_by(sliced, sorts)

\* Memory::read on the store `st` (name -> Option<Vec<Object>>).  A poisoned
\* mutex makes lock().unwrap() panic; with overflow checks compiled in, the
\* overflowing sum of Range::end panics while the lock is held.
Memory_read(st, is_poisoned, name, cond, sorts, range, overflow_checks) ==
  IF is_poisoned THEN Panic
  ELSE IF st[name] # None
  THEN IF overflow_checks /\ Range_end_overflows(range)
       THEN Panic
       ELSE OkValues(Memory_read_chain(st[name][1], cond, sorts, range))
  ELSE OkValues(<<>>)

\* Memory::append_to_collection: create the collection when it is missing,
\* then append the objects
ensure_collection_always(st, name) == [st EXCEPT ![name] = Some(<<>>)]

ensure_collection(st, name) ==
  IF st[name] = None THEN [st EXCEPT ![name] = Some(<<>>)] ELSE st

append_objects(st, name, objects) ==
  [st EXCEPT ![name] = Some(st[name][1] \o objects)]

Memory_append(st, name, objects) ==
  append_objects(ensure_collection(st, name), name, objects)

----------------------------------------------------------------------------
(* Driver trait *)

\* the read that the default read_one issues
read_one_request(name, cond) ==
  [name |-> name, condition |-> cond, sorts |-> <<>>, range |-> Range_new(None, Some(1))]

\* the rest of the default read_one, on what that read returned
read_one_result_first(read) ==
  IF ~read.ok THEN read
  ELSE IF Len(read.values) = 0 THEN Error_not_found
  ELSE OkValue(read.values[1])

read_one_result(read) ==
  IF ~read.ok THEN read
  ELSE IF Len(read.values) = 0 THEN Error_not_found
  ELSE IF Len(read.values) = 1 THEN OkValue(read.values[1])
  ELSE Error_internal

----------------------------------------------------------------------------
(* Definition and Service *)

Type_new(driver, type_schema) == [driver |-> driver, schema |-> type_schema]

\* Definition::get_type
get_type(def, name) ==
  IF name \in DOMAIN def.types THEN Some(def.types[name]) ELSE None

\* the head of Service::read and Service::read_one: the two try! that come
\* before the driver is chosen.  `error` is Some(e) when one of them returns.
service_admit_unvalidated(def, type_name, q) ==
  LET type == get_type(def, type_name)
  IN IF type = None
     THEN [events |-> << [e |-> "get_type", found |-> FALSE] >>,
           error |-> Some(Error_not_found)]
     ELSE [events |-> << [e |-> "get_type", found |-> TRUE] >>, error |-> None]

service_admit(def, type_name, q) ==
  LET type == get_type(def, type_name)
  IN IF type = None
     THEN [events |-> << [e |-> "get_type", found |-> FALSE] >>,
           error |-> Some(Error_not_found)]
     ELSE LET valid == validate_query(type[1].schema, q)
          IN [events |-> << [e |-> "get_type", found |-> TRUE],
                            [e |-> "validate_query", result |-> valid] >>,
              error |-> IF valid.ok THEN None ELSE Some(valid)]

\* type_.driver().and_then(|config| self.drivers.get(config))
\*   .map_or(&self.memory, Deref::deref)
service_driver(def, drvs, type_name) ==
  LET config == def.types[type_name].driver
  IN IF config # None /\ config[1] \in drvs THEN config[1] ELSE "memory"

\* Driver::read of the chosen driver: the memory driver reads the store, any
\* other driver answers with what its backend returned
Driver_read(driver, st, is_poisoned, request, overflow_checks, backend) ==
  IF driver = "memory"
  THEN Memory_read(st, is_poisoned, request.name, request.condition,
                   request.sorts, request.range, overflow_checks)
  ELSE backend

ReadEvent(driver, request) == [e |-> "driver_read", driver |-> driver, request |-> request]

\* Service::connect_drivers: the default driver's config, then the types' in
\* the order of the BTreeMap; each is discovered and inserted, and the first
\* failure returns (try!), keeping what was inserted before it
RECURSIVE SortedNames(_)
SortedNames(names) ==
  IF names = {} THEN <<>>
  ELSE LET first == CHOOSE n \in names : \A m \in names : n = m \/ n \in {"people"} \/ m \in {"posts"}
       IN <<first>> \o SortedNames(names \ {first})

driver_configs(def) ==
  LET names == SortedNames(DOMAIN def.types)
      of_types == SelectSeq([i \in 1..Len(names) |-> def.types[names[i]].driver],
                            LAMBDA d : d # None)
  IN (IF def.driver # None THEN <<def.driver[1]>> ELSE <<>>)
     \o [i \in 1..Len(of_types) |-> of_types[i][1]]

RECURSIVE connect_prefix(_, _)
connect_prefix(configs, reachable) ==
  IF Len(configs) = 0 \/ configs[1] \notin reachable THEN {}
  ELSE {configs[1]} \cup connect_prefix(Tail(configs), reachable)

----------------------------------------------------------------------------
(* The inputs of the validation runs *)

MaxQueryKeys == 2    \* keys in one Keys node of a query

QueryKeySet == {K_1, K_42, K_a, K_1a, K_u3, K_nil}
NestedKeySet == {K_1, K_a}
PropertyKeySet == {K_1, K_a}

LeafSchemas ==
  {Schema_none, Schema_null, Schema_boolean, Schema_number, Schema_string, Schema_enum}

ObjectSchemasOver(values) ==
  {Schema_object(p, a) : p \in LinearMaps(PropertyKeySet, values, 2), a \in BOOLEAN}

PropertySchemas == {Schema_none, Schema_boolean, Schema_string}

ContainerSchemas1 ==
  {Schema_array(i) : i \in LeafSchemas} \cup ObjectSchemasOver(PropertySchemas)

SmallContainers ==
  {Schema_array(Schema_boolean), Schema_array(Schema_none),
   Schema_object(<< <<K_a, Schema_boolean>> >>, FALSE),
   Schema_object(<< <<K_a, Schema_boolean>> >>, TRUE)}

ContainerSchemas2 ==
  {Schema_array(i) : i \in SmallContainers}
  \cup {Schema_object(<< <<k, v>> >>, a) :
          k \in PropertyKeySet, v \in SmallContainers, a \in BOOLEAN}

Schemas == LeafSchemas \cup ContainerSchemas1 \cup ContainerSchemas2

LeafQueries == {Query_All, Query_Keys(<<>>)}

ChainQueries ==
  LeafQueries \cup {Query_Keys(<< <<k, l>> >>) : k \in NestedKeySet, l \in LeafQueries}

Queries ==
  {Query_All}
  \cup {Query_Keys(m) : m \in LinearMaps(QueryKeySet, ChainQueries, MaxQueryKeys)}

----------------------------------------------------------------------------
(* The inputs of the driver and service runs *)

MaxStore == 2      \* objects held by the store, over all its collections
MaxRange == 2      \* the small offsets and limits of a Range
MaxBackend == 2    \* values a backend returns for one read

K_b == <<"b">>

Object_ab(a, b) == << <<K_a, a>>, <<K_b, b>> >>

O_12 == Object_ab(Value_I64(1), Value_I64(2))
O_11 == Object_ab(Value_I64(1), Value_I64(1))
O_x1 == Object_ab(Value_String(<<120>>), Value_I64(1))

ObjectSet == {O_12, O_11, O_x1}
FewObjects == {O_12, O_11}

CollectionNames == {"people", "posts"}
TypeNames == {"people", "posts", "ghosts"}

RECURSIVE SeqsUpTo(_, _)
SeqsUpTo(S, n) ==
  IF n = 0 THEN {<<>>}
  ELSE LET shorter == SeqsUpTo(S, n - 1)
       IN shorter \cup {Append(q, x) : q \in {r \in shorter : Len(r) = n - 1}, x \in S}

A_is_1 == Condition_Key(K_a, Condition_Equal(Value_I64(1)))

Conditions == {Condition_True, Condition_False, A_is_1, Condition_Not(A_is_1)}

SortLists ==
  {<<>>,
   <<Sort_new(<<K_a>>, TRUE), Sort_new(<<K_b>>, TRUE)>>,
   <<Sort_new(<<K_b>>, FALSE), Sort_new(<<K_a>>, TRUE)>>}

RangeOffsets == {None} \cup {Some(n) : n \in 0..MaxRange}
RangeLimits == RangeOffsets \cup {Some(UsizeMax)}
Ranges == {Range_new(offset, limit) : offset \in RangeOffsets, limit \in RangeLimits}

BackendOutcomes == {Error_internal} \cup {OkValues(v) : v \in SeqsUpTo(FewObjects, MaxBackend)}

PeopleSchema ==
  Schema_object(<< <<K_a, Schema_number>>, <<K_b, Schema_number>> >>, FALSE)
PostsSchema ==
  Schema_object(<< <<K_a, Schema_string>> >>, TRUE)

Definition_memory ==
  [driver |-> None,
   types |-> [n \in {"people", "posts"} |->
                IF n = "people" THEN Type_new(None, PeopleSchema)
                ELSE Type_new(None, PostsSchema)]]

Definition_mongodb ==
  [driver |-> Some("mongodb://localhost/main"),
   types |-> [n \in {"people", "posts"} |->
                IF n = "people" THEN Type_new(None, PeopleSchema)
                ELSE Type_new(Some("mongodb://localhost/posts"), PostsSchema)]]

Definitions == {Definition_memory, Definition_mongodb}

ServiceQueries ==
  {Query_All,
   Query_Keys(<< <<K_a, Query_All>> >>),
   Query_Keys(<< <<K_42, Query_All>> >>),
   Query_Keys(<< <<K_a, Query_Keys(<<>>)>> >>)}

ServiceConditions == {Condition_True, A_is_1}
ServiceSorts == {<<>>, <<Sort_new(<<K_a>>, TRUE)>>}
ServiceRanges == {Range_default, Range_new(Some(1), Some(1))}

StoreSize(st) ==
  LET len(n) == IF st[n] = None THEN 0 ELSE Len(st[n][1])
  IN len("people") + len("posts")

NoCall == [op |-> "none"]
NoInput == [f |-> "none"]
Threads == {"t1", "t2"}
Idle == [pc |-> "idle"]
NoThreads == [t \in Threads |-> Idle]

----------------------------------------------------------------------------
(* Operations *)

\* Memory::append_to_collection(name, objects)
AppendToCollection(name, objects) ==
  /\ call = NoCall
  /\ StoreSize(store) + Len(objects) <= MaxStore
  /\ IF poisoned
     THEN /\ UNCHANGED store
          /\ call' = [op |-> "append", name |-> name, objects |-> objects, result |-> Panic]
     ELSE /\ store' = Memory_append(store, name, objects)
          /\ call' = [op |-> "append", name |-> name, objects |-> objects, result |-> Ok]
  /\ UNCHANGED <<threads, mutex, input, output, schema, query, vq_result, poisoned, definition, drivers>>

\* Memory::read(name, cond, sorts, range)
MemoryRead(name, cond, sorts, range, overflow_checks) ==
  LET result == Memory_read(store, poisoned, name, cond, sorts, range, overflow_checks)
  IN /\ call = NoCall
     /\ call' = [op |-> "memory_read", name |-> name, condition |-> cond,
                 sorts |-> sorts, range |-> range, result |-> result]
     /\ poisoned' = (poisoned \/ result = Panic)
     /\ UNCHANGED <<threads, mutex, input, output, schema, query, vq_result, store, definition, drivers>>

\* the default Driver::read_one(name, condition) of the memory driver or of a
\* driver with a backend
ReadOne(driver, name, cond, overflow_checks, backend) ==
  LET request == read_one_request(name, cond)
      read == Driver_read(driver, store, poisoned, request, overflow_checks, backend)
  IN /\ call = NoCall
     /\ call' = [op |-> "read_one", driver |-> driver, name |-> name, condition |-> cond,
                 events |-> <<ReadEvent(driver, request)>>, read |-> read,
                 result |-> read_one_result(read)]
     /\ poisoned' = (poisoned \/ (driver = "memory" /\ read = Panic))
     /\ UNCHANGED <<threads, mutex, input, output, schema, query, vq_result, store, definition, drivers>>

\* Service::connect_drivers; `reachable` are the configs whose driver connects
ConnectDrivers(reachable) ==
  LET configs == driver_configs(definition)
      connected == connect_prefix(configs, reachable)
  IN /\ call = NoCall
     /\ drivers' = drivers \cup connected
     /\ call' = [op |-> "connect_drivers",
                 result |-> IF connected = Range(configs) THEN Ok ELSE Error_not_found]
     /\ UNCHANGED <<threads, mutex, input, output, schema, query, vq_result, store, poisoned, definition>>

\* Service::read(type_name, condition, sort, range, query)
ServiceRead(type_name, cond, sorts, range, q, overflow_checks, backend) ==
  LET admit == service_admit(definition, type_name, q)
      request == [name |-> type_name, condition |-> cond, sorts |-> sorts, range |-> range]
      driver == service_driver(definition, drivers, type_name)
      read == Driver_read(driver, store, poisoned, request, overflow_checks, backend)
      args == [type_name |-> type_name, condition |-> cond, sorts |-> sorts,
               range |-> range, query |-> q]
  IN /\ call = NoCall
     /\ IF admit.error # None
        THEN /\ call' = [op |-> "service_read", args |-> args,
                         events |-> admit.events, result |-> admit.error[1]]
             /\ UNCHANGED <<threads, mutex, input, output, schema, query, vq_result, store, poisoned, definition, drivers>>
        ELSE /\ call' = [op |-> "service_read", args |-> args,
                         events |-> Append(admit.events, ReadEvent(driver, request)),
                         result |-> read]
             /\ poisoned' = (poisoned \/ (driver = "memory" /\ read = Panic))
             /\ UNCHANGED <<threads, mutex, input, output, schema, query, vq_result, store, definition, drivers>>

\* Service::read_one(type_name, condition, query)
ServiceReadOne(type_name, cond, q, overflow_checks, backend) ==
  LET admit == service_admit(definition, type_name, q)
      request == read_one_request(type_name, cond)
      driver == service_driver(definition, drivers, type_name)
      read == Driver_read(driver, store, poisoned, request, overflow_checks, backend)
      args == [type_name |-> type_name, condition |-> cond, query |-> q]
  IN /\ call = NoCall
     /\ IF admit.error # None
        THEN /\ call' = [op |-> "service_read_one", args |-> args,
                         events |-> admit.events, result |-> admit.error[1]]
             /\ UNCHANGED <<threads, mutex, input, output, schema, query, vq_result, store, poisoned, definition, drivers>>
        ELSE /\ call' = [op |-> "service_read_one", args |-> args,
                         events |-> Append(admit.events, ReadEvent(driver, request)),
                         result |-> read_one_result(read)]
             /\ poisoned' = (poisoned \/ (driver = "memory" /\ read = Panic))
             /\ UNCHANGED <<threads, mutex, input, output, schema, query, vq_result, store, definition, drivers>>

\* the caller takes the result of the operation
Return ==
  /\ call # NoCall
  /\ call' = NoCall
  /\ UNCHANGED <<threads, mutex, input, output, schema, query, vq_result, store, poisoned, definition, drivers>>

\* the outcomes that can differ for one operation: the build's overflow checks
\* matter only to a Range whose end overflows, a backend's answer only to a
\* driver that has a backend
OverflowChoices(range) == IF Range_end_overflows(range) THEN BOOLEAN ELSE {FALSE}
BackendChoices(driver) == IF driver = "memory" THEN {Error_internal} ELSE BackendOutcomes
DriverOf(type_name) ==
  IF type_name \in DOMAIN definition.types
  THEN service_driver(definition, drivers, type_name) ELSE "memory"

----------------------------------------------------------------------------
(* The service: a definition, its drivers, and reads through Service *)

EmptyStore == [n \in CollectionNames |-> None]

Init ==
  /\ schema = Schema_none /\ query = Query_All /\ vq_result = <<>>
  /\ store = EmptyStore
  /\ poisoned = FALSE
  /\ definition \in Definitions
  /\ drivers = {}
  /\ call = NoCall
  /\ threads = NoThreads /\ mutex = <<>>
  /\ input = NoInput /\ output = <<>>

Next ==
  \/ \E name \in CollectionNames, objects \in SeqsUpTo(FewObjects, MaxStore) :
       AppendToCollection(name, objects)
  \/ \E reachable \in SUBSET Range(driver_configs(definition)) :
       ConnectDrivers(reachable)
  \/ \E type_name \in TypeNames, cond \in ServiceConditions, sorts \in ServiceSorts,
        range \in ServiceRanges, q \in ServiceQueries :
       \E overflow_checks \in OverflowChoices(range),
          backend \in BackendChoices(DriverOf(type_name)) :
         ServiceRead(type_name, cond, sorts, range, q, overflow_checks, backend)
  \/ \E type_name \in TypeNames, cond \in ServiceConditions, q \in ServiceQueries :
       \E backend \in BackendChoices(DriverOf(type_name)) :
         ServiceReadOne(type_name, cond, q, FALSE, backend)
  \/ Return

Spec == Init /\ [][Next]_vars

----------------------------------------------------------------------------
(* The drivers alone: the memory driver's store, reads and read_one *)

InitDriver ==
  /\ schema = Schema_none /\ query = Query_All /\ vq_result = <<>>
  /\ store = EmptyStore
  /\ poisoned = FALSE
  /\ definition = Definition_memory
  /\ drivers = {}
  /\ call = NoCall
  /\ threads = NoThreads /\ mutex = <<>>
  /\ input = NoInput /\ output = <<>>

NextDriver ==
  \/ \E name \in CollectionNames, objects \in SeqsUpTo(ObjectSet, MaxStore) :
       AppendToCollection(name, objects)
  \/ \E name \in CollectionNames, cond \in Conditions, sorts \in SortLists,
        range \in Ranges :
       \E overflow_checks \in OverflowChoices(range) :
         MemoryRead(name, cond, sorts, range, overflow_checks)
  \/ \E driver \in {"memory", "backend"}, name \in CollectionNames, cond \in Conditions :
       \E backend \in BackendChoices(driver) :
         ReadOne(driver, name, cond, FALSE, backend)
  \/ Return

SpecDriver == InitDriver /\ [][NextDriver]_vars

----------------------------------------------------------------------------
(* Validation runs: one schema and one query, validated once *)

InitValidate ==
  /\ schema \in Schemas
  /\ query \in Queries
  /\ vq_result = <<>>
  /\ store = EmptyStore
  /\ poisoned = FALSE
  /\ definition = Definition_memory
  /\ drivers = {}
  /\ call = NoCall
  /\ threads = NoThreads /\ mutex = <<>>
  /\ input = NoInput /\ output = <<>>

ValidateQuery ==
  /\ vq_result = <<>>
  /\ vq_result' = <<validate_query(schema, query)>>
  /\ UNCHANGED <<threads, mutex, input, output, schema, query, store, poisoned, definition, drivers, call>>

NextValidate == ValidateQuery

SpecValidate == InitValidate /\ [][NextValidate]_vars

Validated == vq_result # <<>>

vq == vq_result[1]

----------------------------------------------------------------------------
(* The MongoDB driver: Bson, Document, and the compilers of mongodb.rs *)

Bson_Null == [b |-> "Null"]
Bson_Boolean(v) == [b |-> "Boolean", bool |-> v]
Bson_I32(n) == [b |-> "I32", i |-> n]
Bson_I64(n) == [b |-> "I64", i |-> n]
Bson_FloatingPoint(n) == [b |-> "FloatingPoint", f |-> n]
Bson_String(cs) == [b |-> "String", s |-> cs]
Bson_Array(items) == [b |-> "Array", a |-> items]
\* a Document keeps its entries in insertion order
Bson_Document(entries) == [b |-> "Document", d |-> entries]

\* the outcome of a call that recurses into itself without end
StackOverflow == [b |-> "stack overflow"]

\* Document::insert: a new key is appended; a key the document holds already
\* loses its old entry and is appended with the new value
Document_insert(document, key, value) ==
  Append(SelectSeq(document, LAMBDA entry : entry[1] # key), <<key, value>>)

\* Pointer::join(".")
RECURSIVE Pointer_join(_)
Pointer_join(pointer) ==
  IF Len(pointer) = 0 THEN <<>>
  ELSE IF Len(pointer) = 1 THEN pointer[1]
  ELSE pointer[1] \o <<".">> \o Pointer_join(Tail(pointer))

\* impl Into<Bson> for Value.  The Object arm is Value::Object(object).into(),
\* the same conversion of the same value again.
RECURSIVE Value_into_bson(_)
Value_into_bson(value) ==
  CASE value.t = "Null" -> Bson_Null
    [] value.t = "Boolean" -> Bson_Boolean(value.b)
    [] value.t = "I64" -> Bson_I64(value.i)
    [] value.t = "F64" -> Bson_FloatingPoint(value.f)
    [] value.t = "String" -> Bson_String(value.s)
    [] value.t = "Object" -> StackOverflow
    [] value.t = "Array" ->
         LET items == [i \in 1..Len(value.a) |-> Value_into_bson(value.a[i])]
         IN IF \E i \in 1..Len(items) : items[i] = StackOverflow
            THEN StackOverflow ELSE Bson_Array(items)

\* impl Into<Document> for Value: the entries of an Object, each value
\* converted by Document::insert through Into<Bson>; an empty document for
\* every other variant
Value_into_document(value) ==
  IF value.t = "Object"
  THEN LET items == [i \in 1..Len(value.o) |->
                       <<value.o[i][1], Value_into_bson(value.o[i][2])>>]
       IN IF \E i \in 1..Len(items) : items[i][2] = StackOverflow
          THEN StackOverflow ELSE Bson_Document(items)
  ELSE Bson_Document(<<>>)

W_true == <<"t", "r", "u", "e">>
W_false == <<"f", "a", "l", "s", "e">>
Op_where == <<"$where">>
Op_not == <<"$not">>
Op_and == <<"$and">>
Op_or == <<"$or">>
Op_eq == <<"$eq">>
F_id == <<"_id">>

RECURSIVE condition_to_filter(_)
RECURSIVE filter_add_keys(_, _, _)

\* add_keys of condition_to_filter: the entries of keys in order, a Keys
\* below a key flattened under the longer pointer, every other condition
\* inserted at the dot-joined pointer
filter_add_keys(document, pointer, keys) ==
  IF Len(keys) = 0 \/ document = StackOverflow THEN document
  ELSE LET key == keys[1][1]
           condition == keys[1][2]
           sub_pointer == Append(pointer, key)
           added ==
             IF condition.c = "Keys"
             THEN filter_add_keys(document, sub_pointer, condition.keys)
             ELSE LET filter == condition_to_filter(condition)
                  IN IF filter = StackOverflow THEN StackOverflow
                     ELSE Bson_Document(
                            Document_insert(document.d, Pointer_join(sub_pointer), filter))
       IN filter_add_keys(added, pointer, Tail(keys))

condition_to_filter(condition) ==
  CASE condition.c = "Keys" ->
         filter_add_keys(Bson_Document(<<>>), <<>>, condition.keys)
    [] condition.c = "True" -> Bson_Document(<< <<Op_where, Bson_String(W_true)>> >>)
    [] condition.c = "False" -> Bson_Document(<< <<Op_where, Bson_String(W_false)>> >>)
    [] condition.c = "Not" ->
         LET filter == condition_to_filter(condition.cond)
         IN IF filter = StackOverflow THEN StackOverflow
            ELSE Bson_Document(<< <<Op_not, filter>> >>)
    [] condition.c \in {"And", "Or"} ->
         LET filters == [i \in 1..Len(condition.conds) |->
                           condition_to_filter(condition.conds[i])]
         IN IF \E i \in 1..Len(filters) : filters[i] = StackOverflow
            THEN StackOverflow
            ELSE Bson_Document(<< <<IF condition.c = "And" THEN Op_and ELSE Op_or,
                                    Bson_Array(filters)>> >>)
    [] condition.c = "Equal" ->
         LET bson_value == Value_into_bson(condition.value)
         IN IF bson_value = StackOverflow THEN StackOverflow
            ELSE Bson_Document(<< <<Op_eq, bson_value>> >>)

\* sort_rules_to_sort: one insert per rule, in the order of the rules
RECURSIVE sort_insert_rules(_, _)
sort_insert_rules(document, sort_rules) ==
  IF Len(sort_rules) = 0 THEN document
  ELSE sort_insert_rules(
         Document_insert(document, Pointer_join(sort_rules[1].property),
                         Bson_I32(IF ~sort_rules[1].ascending THEN -1 ELSE 1)),
         Tail(sort_rules))

sort_rules_to_sort(sort_rules) == Bson_Document(sort_insert_rules(<<>>, sort_rules))

\* add_keys of query_to_projection
RECURSIVE projection_add_keys(_, _, _)
RECURSIVE projection_add_entries(_, _, _)
projection_add_keys(document, pointer, q) ==
  IF q.q = "All" THEN Document_insert(document, Pointer_join(pointer), Bson_I32(1))
  ELSE projection_add_entries(document, pointer, q.keys)

projection_add_entries(document, pointer, keys) ==
  IF Len(keys) = 0 THEN document
  ELSE projection_add_entries(
         projection_add_keys(document, Append(pointer, keys[1][1]), keys[1][2]),
         pointer, Tail(keys))

query_to_projection(q) ==
  LET document == Document_insert(<<>>, F_id, Bson_I32(0))
  IN IF q = Query_All THEN Bson_Document(document)
     ELSE Bson_Document(projection_add_keys(document, <<>>, q))

\* impl From<Bson> for Value and impl From<Document> for Value, on the kinds
\* of Bson the model holds
RECURSIVE Value_from_bson(_)
Value_from_bson(bson) ==
  CASE bson.b = "FloatingPoint" -> Value_F64(bson.f)
    [] bson.b = "String" -> Value_String(bson.s)
    [] bson.b = "Array" -> Value_Array([i \in 1..Len(bson.a) |-> Value_from_bson(bson.a[i])])
    [] bson.b = "Document" ->
         Value_Object([i \in 1..Len(bson.d) |-> <<bson.d[i][1], Value_from_bson(bson.d[i][2])>>])
    [] bson.b = "Boolean" -> Value_Boolean(bson.bool)
    [] bson.b = "Null" -> Value_Null
    [] bson.b \in {"I32", "I64"} -> Value_I64(bson.i)

F_find == <<"find">>
F_filter == <<"filter">>
F_sort == <<"sort">>
F_projection == <<"projection">>
F_limit == <<"limit">>
F_skip == <<"skip">>

\* the find command of MongoDB::read
find_command(type_name, condition, sort, range, q) ==
  LET filter == condition_to_filter(condition)
      base == << <<F_find, Bson_String(type_name)>>,
                 <<F_filter, filter>>,
                 <<F_sort, sort_rules_to_sort(sort)>>,
                 <<F_projection, query_to_projection(q)>> >>
      limited == IF range.limit # None
                 THEN Document_insert(base, F_limit, Bson_I64(range.limit[1])) ELSE base
      skipped == IF range.offset # None
                 THEN Document_insert(limited, F_skip, Bson_I64(range.offset[1])) ELSE limited
  IN IF filter = StackOverflow THEN StackOverflow ELSE Bson_Document(skipped)

Cursor_ok(document) == [ok |-> TRUE, document |-> document]
Cursor_err == [ok |-> FALSE]

\* cursor.filter_map(Result::ok).map(Value::from), once the caller has taken
\* every item
cursor_values(cursor) ==
  LET oks == SelectSeq(cursor, LAMBDA item : item.ok)
  IN OkValues([i \in 1..Len(oks) |-> Value_from_bson(oks[i].document)])

\* MongoDB::read: `dispatched` is whether command_cursor returned a cursor,
\* `cursor` the items that cursor yields
MongoDB_read(type_name, condition, sort, range, q, dispatched, cursor) ==
  LET command == find_command(type_name, condition, sort, range, q)
  IN IF command = StackOverflow THEN Panic
     ELSE IF ~dispatched THEN Error_internal
     ELSE cursor_values(cursor)

----------------------------------------------------------------------------
(* The backend: how a MongoDB find decides whether a filter accepts a       *)
(* document (query operators $where, $and, $or, $not, $eq, dotted paths)    *)

OperatorKeys == {Op_where, Op_not, Op_and, Op_or, Op_eq}

\* the keys of a dotted path
RECURSIVE Path_split(_, _)
Path_split(key, current) ==
  IF Len(key) = 0 THEN <<current>>
  ELSE IF key[1] = "." THEN <<current>> \o Path_split(Tail(key), <<>>)
  ELSE Path_split(Tail(key), Append(current, key[1]))

Bson_is_number(x) == x.b \in {"I32", "I64", "FloatingPoint"}
Bson_number(x) == IF x.b = "FloatingPoint" THEN x.f ELSE x.i

\* equality of two BSON values as the query engine compares them: numbers by
\* value whatever their type, everything else by kind and content
Bson_equal(x, y) ==
  IF Bson_is_number(x) /\ Bson_is_number(y) THEN Bson_number(x) = Bson_number(y)
  ELSE x.b = y.b /\ x = y

Document_get(entries, key) ==
  IF \E i \in 1..Len(entries) : entries[i][1] = key
  THEN Some(entries[CHOOSE i \in 1..Len(entries) : entries[i][1] = key][2])
  ELSE None

\* the values a path addresses in a BSON value; an array on the way is
\* searched element by element
RECURSIVE Path_values(_, _)
Path_values(bson, path) ==
  IF Len(path) = 0 THEN {bson}
  ELSE IF bson.b = "Document"
  THEN LET sub == Document_get(bson.d, path[1])
       IN IF sub = None THEN {} ELSE Path_values(sub[1], Tail(path))
  ELSE IF bson.b = "Array"
  THEN UNION {Path_values(bson.a[i], path) : i \in 1..Len(bson.a)}
  ELSE {}

\* { path: { $eq: operand } }: a value at the path equals the operand, or is
\* an array holding it; a null operand also matches a document without the path
Field_equals(document, path, operand) ==
  LET found == Path_values(document, path)
  IN \/ \E x \in found :
          \/ Bson_equal(x, operand)
          \/ x.b = "Array" /\ \E i \in 1..Len(x.a) : Bson_equal(x.a[i], operand)
     \/ found = {} /\ operand.b = "Null"

Is_operator_document(bson) ==
  bson.b = "Document" /\ Len(bson.d) > 0 /\ bson.d[1][1] \in OperatorKeys

\* the operator expression of one field: "accept", "reject" or "error"
RECURSIVE Field_matches(_, _, _)
Field_matches(document, path, expression) ==
  IF ~Is_operator_document(expression)
  THEN IF Field_equals(document, path, expression) THEN "accept" ELSE "reject"
  ELSE LET op == expression.d[1][1]
           operand == expression.d[1][2]
       IN CASE op = Op_eq ->
                 IF Field_equals(document, path, operand) THEN "accept" ELSE "reject"
            [] op = Op_not ->
                 IF ~Is_operator_document(operand) THEN "error"
                 ELSE LET inner == Field_matches(document, path, operand)
                      IN CASE inner = "accept" -> "reject"
                           [] inner = "reject" -> "accept"
                           [] OTHER -> "error"
            [] OTHER -> "error"

\* a filter document on a document of the collection: every entry must accept
RECURSIVE Filter_matches(_, _)
Filter_entry_matches(document, key, value) ==
  CASE key = Op_where ->
         IF value = Bson_String(W_true) THEN "accept"
         ELSE IF value = Bson_String(W_false) THEN "reject" ELSE "error"
    [] key \in {Op_and, Op_or} ->
         IF value.b # "Array" \/ Len(value.a) = 0 THEN "error"
         ELSE LET results == {Filter_matches(value.a[i], document) : i \in 1..Len(value.a)}
              IN IF "error" \in results THEN "error"
                 ELSE IF key = Op_and
                 THEN (IF results = {"accept"} THEN "accept" ELSE "reject")
                 ELSE (IF "accept" \in results THEN "accept" ELSE "reject")
    [] key \in {Op_not, Op_eq} -> "error"
    [] OTHER -> Field_matches(document, Path_split(key, <<>>), value)

Filter_matches(filter, document) ==
  IF filter.b # "Document" THEN "error"
  ELSE LET results == {Filter_entry_matches(document, filter.d[i][1], filter.d[i][2]) :
                         i \in 1..Len(filter.d)}
       IN IF "error" \in results THEN "error"
          ELSE IF "reject" \in results THEN "reject" ELSE "accept"

----------------------------------------------------------------------------
(* Threads sharing one Memory: every operation step by step, the Mutex      *)
(* around the store taken by lock() and released when the guard is dropped  *)

validateVars == <<schema, query, vq_result>>
serviceVars == <<definition, drivers, call>>
functionVars == <<input, output>>

\* Mutex::lock blocks while another thread holds the guard
Mutex_can_lock_unguarded(holder) == TRUE

Mutex_can_lock(holder) == holder = <<>>

ThreadAppends ==
  {[f |-> "append", name |-> name, objects |-> objects] :
     name \in CollectionNames, objects \in {<<O_12>>, <<O_11>>, <<O_12, O_11>>}}

ThreadReads ==
  {[f |-> "read", name |-> name, condition |-> cond, sorts |-> <<>>, range |-> range] :
     name \in CollectionNames, cond \in ServiceConditions,
     range \in {Range_default, Range_new(Some(1), Some(UsizeMax))}}

Finished(op, result) == [pc |-> "done", op |-> op, result |-> result]

\* a thread calls Memory::append_to_collection or Memory::read; the appends
\* under way may bring the store to one object more than MaxStore, so that a
\* call of two objects runs beside another append
T_Call(t, op) ==
  /\ threads[t] = Idle
  /\ op.f = "append" =>
       \A u \in Threads \ {t} :
         StoreSize(store) + Len(op.objects)
           + (IF threads[u].pc \in {"lock", "contains_key", "append"}
                 /\ threads[u].op.f = "append"
              THEN Len(threads[u].op.objects) ELSE 0)
           <= MaxStore + 1
  /\ threads' = [threads EXCEPT ![t] = [pc |-> "lock", op |-> op]]
  /\ UNCHANGED <<store, poisoned, mutex, validateVars, serviceVars, functionVars>>

\* self.store.lock().unwrap(): waits for the guard; a poisoned Mutex makes
\* unwrap panic, and the guard inside the error is dropped at once
T_Lock(t) ==
  /\ threads[t].pc = "lock"
  /\ Mutex_can_lock(mutex)
  /\ IF poisoned
     THEN /\ threads' = [threads EXCEPT ![t] = Finished(threads[t].op, Panic)]
          /\ UNCHANGED mutex
     ELSE /\ mutex' = <<t>>
          /\ threads' = [threads EXCEPT ![t].pc =
                           IF threads[t].op.f = "append" THEN "contains_key" ELSE "get"]
  /\ UNCHANGED <<store, poisoned, validateVars, serviceVars, functionVars>>

\* append_to_collection: if !store.contains_key(name) { store.insert(..) }
T_ContainsKey(t) ==
  /\ threads[t].pc = "contains_key"
  /\ store' = ensure_collection(store, threads[t].op.name)
  /\ threads' = [threads EXCEPT ![t].pc = "append"]
  /\ UNCHANGED <<poisoned, mutex, validateVars, serviceVars, functionVars>>

\* append_to_collection: store.get_mut(name).unwrap().append(objects)
T_Append(t) ==
  /\ threads[t].pc = "append"
  /\ store' = append_objects(store, threads[t].op.name, threads[t].op.objects)
  /\ threads' = [threads EXCEPT ![t] = [pc |-> "unlock", op |-> threads[t].op, result |-> Ok]]
  /\ UNCHANGED <<poisoned, mutex, validateVars, serviceVars, functionVars>>

T_Get_creating(t, overflow_checks) ==
  LET op == threads[t].op
      result == Memory_read(store, FALSE, op.name, op.condition, op.sorts, op.range,
                            overflow_checks)
  IN /\ threads[t].pc = "get"
     /\ overflow_checks \in OverflowChoices(op.range)
     /\ IF result = Panic
        THEN /\ threads' = [threads EXCEPT ![t] = Finished(op, Panic)]
             /\ mutex' = <<>>
             /\ poisoned' = TRUE
        ELSE /\ threads' = [threads EXCEPT ![t] =
                              [pc |-> "unlock", op |-> op, result |-> result]]
             /\ UNCHANGED <<mutex, poisoned>>
     /\ store' = ensure_collection(store, op.name)
     /\ UNCHANGED <<validateVars, serviceVars, functionVars>>

\* read: .get(name) and the whole iterator chain, which sorted_by collects
\* into a Vec of clones; a panic in it drops the guard and poisons the Mutex
T_Get(t, overflow_checks) ==
  LET op == threads[t].op
      result == Memory_read(store, FALSE, op.name, op.condition, op.sorts, op.range,
                            overflow_checks)
  IN /\ threads[t].pc = "get"
     /\ overflow_checks \in OverflowChoices(op.range)
     /\ IF result = Panic
        THEN /\ threads' = [threads EXCEPT ![t] = Finished(op, Panic)]
             /\ mutex' = <<>>
             /\ poisoned' = TRUE
        ELSE /\ threads' = [threads EXCEPT ![t] =
                              [pc |-> "unlock", op |-> op, result |-> result]]
             /\ UNCHANGED <<mutex, poisoned>>
     /\ UNCHANGED <<store, validateVars, serviceVars, functionVars>>

\* the guard goes out of scope: end of the if let of read, end of
\* append_to_collection
T_Unlock(t) ==
  /\ threads[t].pc = "unlock"
  /\ mutex' = <<>>
  /\ threads' = [threads EXCEPT ![t] = Finished(threads[t].op, threads[t].result)]
  /\ UNCHANGED <<store, poisoned, validateVars, serviceVars, functionVars>>

\* the caller takes the result
T_Return(t) ==
  /\ threads[t].pc = "done"
  /\ threads' = [threads EXCEPT ![t] = Idle]
  /\ UNCHANGED <<store, poisoned, mutex, validateVars, serviceVars, functionVars>>

NextThreads ==
  \/ \E t \in Threads, op \in ThreadAppends \cup ThreadReads : T_Call(t, op)
  \/ \E t \in Threads : T_Lock(t)
  \/ \E t \in Threads : T_ContainsKey(t)
  \/ \E t \in Threads : T_Append(t)
  \/ \E t \in Threads, overflow_checks \in BOOLEAN : T_Get(t, overflow_checks)
  \/ \E t \in Threads : T_Unlock(t)
  \/ \E t \in Threads : T_Return(t)

SpecThreads == InitDriver /\ [][NextThreads]_vars

----------------------------------------------------------------------------
(* Runs of the MongoDB driver: one call of one function on bounded inputs *)

MaxCursor == 2     \* items a cursor yields

K_ab == <<"a", ".", "b">>
N_people == <<"people">>

Doc_a1 == Bson_Document(<< <<K_a, Bson_I32(1)>>, <<K_b, Bson_I32(2)>> >>)
Doc_a2 == Bson_Document(<< <<K_a, Bson_I32(2)>> >>)

CursorItems == {Cursor_ok(Doc_a1), Cursor_ok(Doc_a2), Cursor_err}

MongoReadInputs ==
  {[f |-> "read", type_name |-> N_people, condition |-> cond, sort |-> <<>>,
    range |-> range, query |-> Query_All, dispatched |-> dispatched, cursor |-> cursor] :
     cond \in {Condition_True, Condition_Keys(<< <<K_a, Condition_Equal(Value_I64(1))>> >>)},
     range \in {Range_default, Range_new(Some(1), Some(1))},
     dispatched \in BOOLEAN,
     cursor \in SeqsUpTo(CursorItems, MaxCursor)}

MaxFilterKeys == 2    \* entries of the outermost Keys of a condition
MaxSortRules == 2     \* rules of a sort handed to sort_rules_to_sort

Equal_1 == Condition_Equal(Value_I64(1))

FilterLeaves == {Condition_True, Condition_False, Equal_1}

\* Keys below a key of the outermost Keys
InnerKeys == {Condition_Keys(m) : m \in LinearMaps({K_a, K_b}, {Condition_True, Condition_False}, 2)}

\* a Keys that is not directly inside a Keys
WrappedKeys == {Condition_Not(Condition_Keys(<< <<K_b, Equal_1>> >>))}

KeysConditions ==
  {Condition_Keys(m) :
     m \in LinearMaps({K_a, K_b, K_ab}, FilterLeaves \cup InnerKeys \cup WrappedKeys,
                      MaxFilterKeys)}

PlainConditions ==
  FilterLeaves \cup
  {Condition_Equal(Value_Object(O_11)),
   Condition_Not(Equal_1),
   Condition_And(<<>>), Condition_Or(<<>>),
   Condition_And(<<Equal_1, Condition_True>>),
   Condition_Or(<<Condition_False, Condition_Keys(<< <<K_a, Equal_1>> >>)>>)}

FilterInputs ==
  {[f |-> "condition_to_filter", condition |-> cond] :
     cond \in KeysConditions \cup PlainConditions}

Doc_b2 == Bson_Document(<< <<K_b, Bson_I32(2)>> >>)
Doc_a_null == Bson_Document(<< <<K_a, Bson_Null>> >>)
Doc_a_list == Bson_Document(<< <<K_a, Bson_Array(<<Bson_I32(1), Bson_I32(2)>>)>> >>)
Doc_a_b1 == Bson_Document(<< <<K_a, Bson_Document(<< <<K_b, Bson_I32(1)>> >>)>> >>)

Records == {Doc_a1, Doc_a2, Doc_b2, Doc_a_null, Doc_a_list, Doc_a_b1}

Equal_null == Condition_Equal(Value_Null)

AcceptConditions ==
  {Condition_True, Condition_False,
   Condition_And(<<Condition_True, Condition_False>>),
   Condition_Or(<<Condition_True, Condition_False>>),
   Condition_Keys(<< <<K_a, Equal_1>> >>),
   Condition_Keys(<< <<K_a, Equal_null>> >>),
   Condition_Keys(<< <<K_a, Condition_Not(Equal_1)>> >>),
   Condition_Keys(<< <<K_a, Condition_Keys(<< <<K_b, Equal_1>> >>)>> >>),
   Condition_Keys(<< <<K_a, Equal_1>>, <<K_b, Condition_Equal(Value_I64(2))>> >>),
   Condition_Keys(<< <<K_a, Condition_True>> >>),
   Condition_Not(Condition_Keys(<< <<K_a, Equal_1>> >>)),
   Condition_And(<<>>), Condition_Or(<<>>),
   Equal_1}

AcceptInputs ==
  {[f |-> "find_one", condition |-> cond, record |-> record] :
     cond \in AcceptConditions, record \in Records}

O_nested == Value_Object(<< <<K_a, Value_Object(O_11)>> >>)

ConvertedValues ==
  {Value_Null, Value_Boolean(TRUE), Value_I64(1), Value_String(W_true),
   Value_Array(<<>>), Value_Array(<<Value_I64(1), Value_Null>>),
   Value_Array(<<Value_Object(O_11)>>),
   Value_Object(<<>>), Value_Object(O_11), Value_Object(O_12), O_nested}

ConvertInputs ==
  {[f |-> f, value |-> value] : f \in {"into_bson", "into_document"}, value \in ConvertedValues}

ProjectedKeys == {K_a, K_b, K_ab, F_id}
InnerQueries == {Query_All, Query_Keys(<<>>), Query_Keys(<< <<K_b, Query_All>> >>),
                 Query_Keys(<< <<K_a, Query_All>>, <<K_b, Query_All>> >>)}

\* the queries of at most two keys, no key twice in one map
ProjectedQueries ==
  {Query_All, Query_Keys(<<>>)}
  \cup {Query_Keys(<< <<k, sub>> >>) : k \in ProjectedKeys, sub \in InnerQueries}
  \cup {Query_Keys(<< <<ks[1], sub1>>, <<ks[2], sub2>> >>) :
          ks \in {pair \in ProjectedKeys \X ProjectedKeys : pair[1] # pair[2]},
          sub1 \in InnerQueries, sub2 \in InnerQueries}

ProjectionInputs == {[f |-> "query_to_projection", query |-> q] : q \in ProjectedQueries}

SortedProperties == {<<K_a>>, <<K_b>>, <<K_a, K_b>>, <<K_ab>>}
SortRules == {Sort_new(property, ascending) : property \in SortedProperties, ascending \in BOOLEAN}

\* the rule lists of at most MaxSortRules rules
SortRuleLists == UNION {[1..n -> SortRules] : n \in 0..MaxSortRules}

SortInputs == {[f |-> "sort_rules_to_sort", sort |-> rules] : rules \in SortRuleLists}

MongoInputs ==
  MongoReadInputs \cup FilterInputs \cup AcceptInputs \cup ConvertInputs
  \cup ProjectionInputs \cup SortInputs

InitMongo ==
  /\ schema = Schema_none /\ query = Query_All /\ vq_result = <<>>
  /\ store = EmptyStore
  /\ poisoned = FALSE
  /\ definition = Definition_mongodb
  /\ drivers = {}
  /\ call = NoCall
  /\ threads = NoThreads /\ mutex = <<>>
  /\ input \in MongoInputs /\ output = <<>>

memoryVars == <<store, poisoned>>
threadVars == <<threads, mutex>>

Returns(result) ==
  /\ output = <<>>
  /\ output' = <<result>>
  /\ UNCHANGED <<input, validateVars, serviceVars, memoryVars, threadVars>>

\* MongoDB::read
MongoRead ==
  /\ input.f = "read"
  /\ Returns(MongoDB_read(input.type_name, input.condition, input.sort, input.range,
                          input.query, input.dispatched, input.cursor))

\* condition_to_filter
ConditionToFilter ==
  /\ input.f = "condition_to_filter"
  /\ Returns(condition_to_filter(input.condition))

\* the condition compiled and run by the backend on one stored document, next
\* to the condition evaluated on the Value of that document
FindOne ==
  /\ input.f = "find_one"
  /\ Returns([backend |-> Filter_matches(condition_to_filter(input.condition), input.record),
              direct |-> is_true(input.condition, Value_from_bson(input.record))])

ValueIntoBson ==
  /\ input.f = "into_bson"
  /\ Returns(Value_into_bson(input.value))

ValueIntoDocument ==
  /\ input.f = "into_document"
  /\ Returns(Value_into_document(input.value))

QueryToProjection ==
  /\ input.f = "query_to_projection"
  /\ Returns(query_to_projection(input.query))

SortRulesToSort ==
  /\ input.f = "sort_rules_to_sort"
  /\ Returns(sort_rules_to_sort(input.sort))

NextMongo ==
  \/ SortRulesToSort
  \/ MongoRead
  \/ ConditionToFilter
  \/ FindOne
  \/ ValueIntoBson
  \/ ValueIntoDocument
  \/ QueryToProjection

SpecMongo == InitMongo /\ [][NextMongo]_vars

Returned == output # <<>>
returned == output[1]

----------------------------------------------------------------------------
(* Value::set and Schema::get, and runs of the functions of Value and Schema *)

\* LinearMap::insert: the value of an entry with the key is replaced where
\* it stands, a new key is pushed at the end
LM_insert(map, key, value) ==
  IF LM_contains_key(map, key)
  THEN [i \in 1..Len(map) |-> IF map[i][1] = key THEN <<key, value>> ELSE map[i]]
  ELSE Append(map, <<key, value>>)

\* Error::invalid(message, hint).  The constructor is not among those of
\* src/src/error.rs; its code is BadRequest, the code the failure of
\* MongoDB::connect on a URI without a database name carries, which is built
\* by it.  The message is kept up to its first formatted part.
Error_invalid(message) == [ok |-> FALSE, code |-> "BadRequest", message |-> message]

Value_set_reinsert(value, key, new) ==
  CASE value.t = "Object" ->
         OkValue(Value_Object(
           Append(SelectSeq(value.o, LAMBDA entry : entry[1] # key), <<key, new>>)))
    [] value.t = "Array" ->
         LET index == parse_usize(key)
         IN IF index # None
            THEN IF index[1] < Len(value.a)
                 THEN OkValue(Value_Array([value.a EXCEPT ![index[1] + 1] = new]))
                 ELSE Error_invalid("Can't set index because it is out of range")
            ELSE Error_invalid("Key is not a positive integer")
    [] OTHER -> Error_invalid("Cannot set key for primitive value")

Value_set_unchecked_index(value, key, new) ==
  CASE value.t = "Object" -> OkValue(Value_Object(LM_insert(value.o, key, new)))
    [] value.t = "Array" ->
         LET index == parse_usize(key)
         IN IF index # None
            THEN OkValue(Value_Array([i \in 1..Len(value.a) |->
                                        IF i = index[1] + 1 THEN new ELSE value.a[i]]))
            ELSE Error_invalid("Key is not a positive integer")
    [] OTHER -> Error_invalid("Cannot set key for primitive value")

\* Value::set(key, new)
Value_set(value, key, new) ==
  CASE value.t = "Object" -> OkValue(Value_Object(LM_insert(value.o, key, new)))
    [] value.t = "Array" ->
         LET index == parse_usize(key)
         IN IF index # None
            THEN IF index[1] < Len(value.a)
                 THEN OkValue(Value_Array([value.a EXCEPT ![index[1] + 1] = new]))
                 ELSE Error_invalid("Can't set index because it is out of range")
            ELSE Error_invalid("Key is not a positive integer")
    [] OTHER -> Error_invalid("Cannot set key for primitive value")

RECURSIVE Schema_get_any_key(_, _)
Schema_get_any_key(s, pointer) ==
  IF Len(pointer) = 0 THEN Some(s)
  ELSE CASE s.type = "Array" -> Schema_get_any_key(s.items, Tail(pointer))
         [] s.type = "Object" ->
              IF LM_contains_key(s.properties, pointer[1])
              THEN Schema_get_any_key(LM_get(s.properties, pointer[1]), Tail(pointer))
              ELSE None
         [] OTHER -> None

\* Schema::get(pointer)
RECURSIVE Schema_get(_, _)
Schema_get(s, pointer) ==
  IF Len(pointer) = 0 THEN Some(s)
  ELSE CASE s.type = "Array" ->
              IF INTEGER_RE_is_match(pointer[1])
              THEN Schema_get(s.items, Tail(pointer))
              ELSE None
         [] s.type = "Object" ->
              IF LM_contains_key(s.properties, pointer[1])
              THEN Schema_get(LM_get(s.properties, pointer[1]), Tail(pointer))
              ELSE None
         [] OTHER -> None

RECURSIVE Query_from_forward(_)
Query_from_forward(pointer) ==
  IF Len(pointer) = 0 THEN Query_All
  ELSE Query_Keys(LM_insert(<<>>, pointer[Len(pointer)],
                            Query_from_forward(SubSeq(pointer, 1, Len(pointer) - 1))))

\* the fold of From<Pointer> for Query over the reversed pointer: the last
\* key first, each key wrapping the accumulator in a map of one entry
RECURSIVE Query_from_fold(_, _)
Query_from_fold(pointer, acc) ==
  IF Len(pointer) = 0 THEN acc
  ELSE Query_from_fold(SubSeq(pointer, 1, Len(pointer) - 1),
                       Query_Keys(LM_insert(<<>>, pointer[Len(pointer)], acc)))

\* impl From<Pointer> for Query
Query_from(pointer) == Query_from_fold(pointer, Query_All)

\* JSON text is a sequence of characters.  The characters of the Strings of
\* the model, by code point
CharOf(cp) ==
  CASE cp = 34 -> "\"" [] cp = 92 -> "\\" [] cp = 10 -> "\n"
    [] cp = 119 -> "w" [] cp = 120 -> "x"

CodeOf(char) == CHOOSE cp \in {10, 34, 92, 119, 120} : CharOf(cp) = char

J_null == <<"n", "u", "l", "l">>

RECURSIVE NatText(_)
NatText(n) ==
  IF n < 10 THEN <<ToString(n)>> ELSE NatText(n \div 10) \o <<ToString(n % 10)>>

IntText(n) == IF n < 0 THEN <<"-">> \o NatText(-n) ELSE NatText(n)

\* a string literal: the quote, the backslash and the line feed are escaped
RECURSIVE EscapedText(_)
EscapedText(chars) ==
  IF Len(chars) = 0 THEN <<>>
  ELSE (CASE chars[1] = "\"" -> <<"\\", "\"">>
          [] chars[1] = "\\" -> <<"\\", "\\">>
          [] chars[1] = "\n" -> <<"\\", "n">>
          [] OTHER -> <<chars[1]>>) \o EscapedText(Tail(chars))

StringText(chars) == <<"\"">> \o EscapedText(chars) \o <<"\"">>

\* Serialize for Value, written by serde_json::to_string: unit as null, an
\* f64 that is not finite as null, a finite one with its fraction, a Vec as
\* [..], a LinearMap as {..} in the order of its entries
RECURSIVE Value_to_json(_)
RECURSIVE JoinItems(_)
RECURSIVE JoinEntries(_)
JoinItems(items) ==
  IF Len(items) = 0 THEN <<>>
  ELSE Value_to_json(items[1])
       \o (IF Len(items) > 1 THEN <<",">> ELSE <<>>) \o JoinItems(Tail(items))

JoinEntries(entries) ==
  IF Len(entries) = 0 THEN <<>>
  ELSE StringText(entries[1][1]) \o <<":">> \o Value_to_json(entries[1][2])
       \o (IF Len(entries) > 1 THEN <<",">> ELSE <<>>) \o JoinEntries(Tail(entries))

Value_to_json(value) ==
  CASE value.t = "Null" -> J_null
    [] value.t = "Boolean" -> IF value.b THEN W_true ELSE W_false
    [] value.t = "I64" -> IntText(value.i)
    [] value.t = "F64" ->
         IF F64_is_finite(value) THEN IntText(value.f) \o <<".", "0">> ELSE J_null
    [] value.t = "String" -> StringText([i \in 1..Len(value.s) |-> CharOf(value.s[i])])
    [] value.t = "Array" -> <<"[">> \o JoinItems(value.a) \o <<"]">>
    [] value.t = "Object" -> <<"{">> \o JoinEntries(value.o) \o <<"}">>

\* the parser of serde_json::from_str driving ValueVisitor: every function
\* gives the value read and the rest of the text
Parsed(v, rest) == [ok |-> TRUE, v |-> v, rest |-> rest]
ParseError == [ok |-> FALSE, rest |-> <<>>]

StartsWith(text, word) == Len(text) >= Len(word) /\ SubSeq(text, 1, Len(word)) = word

RECURSIVE DigitRun(_)
DigitRun(text) ==
  IF Len(text) > 0 /\ text[1] \in AsciiDigits THEN <<text[1]>> \o DigitRun(Tail(text)) ELSE <<>>

\* a number: visit_u64 or visit_i64 for an integer (both give I64), visit_f64
\* for a number with a fraction
ParseNumber(text) ==
  LET negative == text[1] = "-"
      unsigned == IF negative THEN Tail(text) ELSE text
      digits == DigitRun(unsigned)
      after == SubSeq(unsigned, Len(digits) + 1, Len(unsigned))
      magnitude == DecimalValue(digits)
      number == IF negative THEN -magnitude ELSE magnitude
  IN IF Len(digits) = 0 THEN ParseError
     ELSE IF Len(after) > 0 /\ after[1] = "."
     THEN LET fraction == DigitRun(Tail(after))
          IN IF Len(fraction) = 0 \/ \E i \in 1..Len(fraction) : fraction[i] # "0"
             THEN ParseError
             ELSE Parsed(Value_F64(number),
                         SubSeq(after, Len(fraction) + 2, Len(after)))
     ELSE Parsed(Value_I64(number), after)

\* the characters of a string literal after its opening quote
RECURSIVE ParseString(_, _)
ParseString(text, chars) ==
  IF Len(text) = 0 THEN ParseError
  ELSE IF text[1] = "\"" THEN Parsed(chars, Tail(text))
  ELSE IF text[1] = "\\"
  THEN IF Len(text) < 2 THEN ParseError
       ELSE ParseString(Tail(Tail(text)),
                        Append(chars, IF text[2] = "n" THEN "\n" ELSE text[2]))
  ELSE ParseString(Tail(text), Append(chars, text[1]))

RECURSIVE ParseValue(_)
RECURSIVE ParseItems(_, _)
RECURSIVE ParseEntries(_, _)

\* visit_seq: the items up to the closing bracket
ParseItems(text, items) ==
  IF Len(text) = 0 THEN ParseError
  ELSE IF text[1] = "]" THEN Parsed(Value_Array(items), Tail(text))
  ELSE LET item == ParseValue(IF text[1] = "," THEN Tail(text) ELSE text)
       IN IF ~item.ok THEN ParseError ELSE ParseItems(item.rest, Append(items, item.v))

\* visit_map: every entry inserted into a LinearMap in the order read
ParseEntries(text, object) ==
  IF Len(text) = 0 THEN ParseError
  ELSE IF text[1] = "}" THEN Parsed(Value_Object(object), Tail(text))
  ELSE LET start == IF text[1] = "," THEN Tail(text) ELSE text
           key == IF Len(start) > 0 /\ start[1] = "\""
                  THEN ParseString(Tail(start), <<>>) ELSE ParseError
       IN IF ~key.ok \/ Len(key.rest) = 0 \/ key.rest[1] # ":" THEN ParseError
          ELSE LET value == ParseValue(Tail(key.rest))
               IN IF ~value.ok THEN ParseError
                  ELSE ParseEntries(value.rest, LM_insert(object, key.v, value.v))

ParseValue(text) ==
  IF Len(text) = 0 THEN ParseError
  ELSE CASE StartsWith(text, J_null) -> Parsed(Value_Null, SubSeq(text, 5, Len(text)))
         [] StartsWith(text, W_true) -> Parsed(Value_Boolean(TRUE), SubSeq(text, 5, Len(text)))
         [] StartsWith(text, W_false) -> Parsed(Value_Boolean(FALSE), SubSeq(text, 6, Len(text)))
         [] text[1] = "\"" ->
              LET string == ParseString(Tail(text), <<>>)
              IN IF ~string.ok THEN ParseError
                 ELSE Parsed(Value_String([i \in 1..Len(string.v) |-> CodeOf(string.v[i])]),
                             string.rest)
         [] text[1] = "[" -> ParseItems(Tail(text), <<>>)
         [] text[1] = "{" -> ParseEntries(Tail(text), <<>>)
         [] text[1] = "-" \/ text[1] \in AsciiDigits -> ParseNumber(text)
         [] OTHER -> ParseError

\* Value::from_json: the one value of the text, nothing after it
Value_from_json(text) ==
  LET parsed == ParseValue(text)
  IN IF parsed.ok /\ Len(parsed.rest) = 0 THEN OkValue(parsed.v)
     ELSE [ok |-> FALSE, code |-> "Internal"]

MaxPointer == 3    \* keys of a pointer

K_0 == <<"0">>
K_2 == <<"2">>
K_plus1 == <<"+", "1">>

PointerKeys == {K_0, K_1, K_2, K_a, K_b, K_plus1, K_u3}

Pointers == UNION {[1..n -> PointerKeys] : n \in 0..MaxPointer}

V_inner == Value_Object(<< <<K_a, Value_I64(1)>>, <<K_1, Value_Null>> >>)
V_list == Value_Array(<<Value_Boolean(FALSE), V_inner, Value_Array(<<Value_I64(1), Value_I64(2)>>)>>)
V_outer == Value_Object(<< <<K_a, V_list>>, <<K_b, Value_I64(2)>>, <<K_1, V_inner>> >>)

PointedValues ==
  {Value_Null, Value_Boolean(TRUE), Value_I64(36), Value_String(<<119>>),
   Value_Object(<<>>), Value_Array(<<>>), V_inner, V_list, V_outer}

S_inner == Schema_object(<< <<K_a, Schema_boolean>>, <<K_1, Schema_number>> >>, FALSE)

PointedSchemas ==
  {Schema_none, Schema_null, Schema_boolean, Schema_number, Schema_string, Schema_enum,
   Schema_array(Schema_none), Schema_array(Schema_boolean), Schema_array(S_inner),
   Schema_array(Schema_array(Schema_string)),
   S_inner, Schema_object(<<>>, TRUE),
   Schema_object(<< <<K_a, Schema_array(S_inner)>>, <<K_b, S_inner>> >>, TRUE)}

\* V_inner with its entries in the other order
V_swapped == Value_Object(<< <<K_1, Value_Null>>, <<K_a, Value_I64(1)>> >>)

ConditionLeaves0 ==
  {Condition_True, Condition_False, Condition_Equal(Value_I64(36)),
   Condition_Equal(Value_I64(1)), Condition_Equal(V_inner)}

KeyConditions ==
  {Condition_Key(k, cond) : k \in {K_a, K_1, K_b}, cond \in ConditionLeaves0}

EvaluatedConditions ==
  ConditionLeaves0 \cup KeyConditions
  \cup {Condition_Key(k, cond) : k \in {K_a, K_1}, cond \in KeyConditions}
  \cup {Condition_Not(cond) : cond \in ConditionLeaves0 \cup KeyConditions}
  \cup {Condition_And(conds) :
          conds \in {<<>>} \cup (ConditionLeaves0 \X (ConditionLeaves0 \cup KeyConditions))}
  \cup {Condition_Or(conds) :
          conds \in {<<>>} \cup (ConditionLeaves0 \X (ConditionLeaves0 \cup KeyConditions))}

JsonValues ==
  PointedValues
  \cup {V_swapped, Value_Boolean(FALSE), Value_I64(-2), Value_I64(0), Value_F64(3), Value_F64(-1),
        Value_F64_NaN, Value_F64_Infinity,
        Value_String(<<>>), Value_String(<<34, 92, 10, 119>>),
        Value_Array(<<Value_F64(1), Value_String(<<120>>), Value_Array(<<>>)>>),
        Value_Array(<<Value_Null, Value_F64_NaN>>),
        Value_Object(<< <<K_a, Value_Object(<< <<K_b, Value_F64(2)>> >>)>>, <<K_nil, Value_Array(<<>>)>> >>)}

ValueFunctions ==
  {"get_path", "set", "schema_get", "query_from", "validate_pointer", "json", "is_true"}

\* the inputs of the runs of one function
ValueInputs(f) ==
  CASE f = "get_path" ->
         {[f |-> "get_path", value |-> value, pointer |-> pointer] :
            value \in PointedValues, pointer \in Pointers}
    [] f = "set" ->
         {[f |-> "set", value |-> value, key |-> key, new |-> new] :
            value \in PointedValues, key \in PointerKeys,
            new \in {Value_Boolean(TRUE), V_inner}}
    [] f = "schema_get" ->
         {[f |-> "schema_get", schema |-> s, pointer |-> pointer] :
            s \in PointedSchemas, pointer \in Pointers}
    [] f = "query_from" ->
         {[f |-> "query_from", pointer |-> pointer] : pointer \in Pointers}
    [] f = "validate_pointer" ->
         {[f |-> "validate_pointer", schema |-> s, pointer |-> pointer] :
            s \in PointedSchemas, pointer \in Pointers}
    [] f = "json" ->
         {[f |-> "json", value |-> value] : value \in JsonValues}
    [] f = "is_true" ->
         {[f |-> "is_true", condition |-> cond, value |-> value] :
            cond \in EvaluatedConditions, value \in PointedValues \cup {V_swapped}}

InitValue ==
  /\ schema = Schema_none /\ query = Query_All /\ vq_result = <<>>
  /\ store = EmptyStore
  /\ poisoned = FALSE
  /\ definition = Definition_memory
  /\ drivers = {}
  /\ call = NoCall
  /\ threads = NoThreads /\ mutex = <<>>
  /\ \E f \in ValueFunctions : input \in ValueInputs(f)
  /\ output = <<>>

ValueGetPath ==
  /\ input.f = "get_path"
  /\ Returns(Value_get_path(input.value, input.pointer))

ValueSet ==
  /\ input.f = "set"
  /\ Returns(Value_set(input.value, input.key, input.new))

SchemaGet ==
  /\ input.f = "schema_get"
  /\ Returns(Schema_get(input.schema, input.pointer))

QueryFrom ==
  /\ input.f = "query_from"
  /\ Returns(Query_from(input.pointer))

ConditionIsTrue ==
  /\ input.f = "is_true"
  /\ Returns([is_true |-> is_true(input.condition, input.value),
              is_false |-> is_false(input.condition, input.value)])

\* Schema::get(pointer) and Schema::validate_query of Query::from(pointer), on
\* one schema and one pointer
ValidatePointerQuery ==
  /\ input.f = "validate_pointer"
  /\ Returns([got |-> Schema_get(input.schema, input.pointer),
              valid |-> validate_query(input.schema, Query_from(input.pointer))])

\* Value::to_json, then Value::from_json of the text
ToJsonFromJson ==
  /\ input.f = "json"
  /\ LET json == Value_to_json(input.value)
     IN Returns([json |-> json, value |-> Value_from_json(json)])

NextValue ==
  \/ ValidatePointerQuery
  \/ ToJsonFromJson
  \/ ConditionIsTrue
  \/ QueryFrom
  \/ ValueGetPath
  \/ ValueSet
  \/ SchemaGet

SpecValue == InitValue /\ [][NextValue]_vars

----------------------------------------------------------------------------
(* Claims about validate_query, checked under SpecValidate *)

OnlyDecimalDigits(k) == Len(k) > 0 /\ \A i \in 1..Len(k) : k[i] \in UnicodeDigits

SingleKeyQuery == query.q = "Keys" /\ Len(query.keys) = 1

\* C1: for an Object schema with additional_properties = false and a query
\* Keys({k: All}), validate_query is Ok if and only if k is a key of the
\* schema's properties, and when it is not Ok the error message contains k.
C1_ObjectKeyOkIffProperty ==
  (/\ Validated
   /\ schema.type = "Object" /\ ~schema.additional_properties
   /\ SingleKeyQuery /\ query.keys[1][2] = Query_All)
  => LET k == query.keys[1][1]
     IN /\ vq.ok <=> (\E i \in 1..Len(schema.properties) : schema.properties[i][1] = k)
        /\ ~vq.ok => MessageContains(vq, k)

C1_Witness ==
  /\ Validated
  /\ schema.type = "Object" /\ ~schema.additional_properties
  /\ Len(schema.properties) = 2
  /\ SingleKeyQuery /\ query.keys[1][2] = Query_All
  /\ query.keys[1][1] = K_42
  /\ ~vq.ok /\ MessageContains(vq, K_42)

\* C2: for an Array schema and a query Keys({k: q}), validate_query is Ok if
\* and only if k consists only of decimal digits and validate_query of the
\* items schema against q is Ok, whatever the size of the index.
C2_ArrayKeyOkIffDigitsAndItems ==
  (/\ Validated
   /\ schema.type = "Array"
   /\ SingleKeyQuery)
  => (vq.ok <=> /\ OnlyDecimalDigits(query.keys[1][1])
                /\ validate_query(schema.items, query.keys[1][2]).ok)

C2_Witness ==
  /\ Validated
  /\ schema.type = "Array" /\ schema.items.type = "Object"
  /\ SingleKeyQuery
  /\ query.keys[1][1] = K_42
  /\ query.keys[1][2].q = "Keys" /\ Len(query.keys[1][2].keys) = 1
  /\ vq.ok

\* C3: when several keys of a Keys query fail against an Array or Object
\* schema, the error returned is the one of the first failing key in the
\* query's insertion order (what that key alone gives, a nested failure
\* included), never the error of a later key.
C3_FirstFailingKeyWins ==
  (/\ Validated
   /\ schema.type \in {"Array", "Object"}
   /\ query.q = "Keys")
  => LET alone(i) == validate_query(schema, Query_Keys(<<query.keys[i]>>))
         failing == {i \in 1..Len(query.keys) : ~alone(i).ok}
     IN /\ failing = {} => vq.ok
        /\ \A i \in failing : (\A j \in failing : i <= j) => vq = alone(i)

C3_Witness ==
  /\ Validated
  /\ schema.type = "Object" /\ ~schema.additional_properties
  /\ query.q = "Keys" /\ Len(query.keys) = 2
  /\ query.keys[1][2].q = "Keys"
  /\ query.keys[2][2] = Query_All
  /\ ~validate_query(schema, Query_Keys(<<query.keys[1]>>)).ok
  /\ ~validate_query(schema, Query_Keys(<<query.keys[2]>>)).ok
  /\ MessageContains(vq, <<"Cannot deeply query">>)
  /\ ~MessageContains(vq, query.keys[2][1])

\* C4: validate_query is Ok whenever the query is All or the schema is None,
\* and is a "Cannot deeply query" error whenever the schema is Null, Boolean,
\* Number, String or Enum and the query is Keys, a Keys without keys included.
C4_BaseCases ==
  Validated =>
    /\ query = Query_All => vq.ok
    /\ schema.type = "None" => vq.ok
    /\ (schema.type \in {"Null", "Boolean", "Number", "String", "Enum"} /\ query.q = "Keys")
         => MessageContains(vq, <<"Cannot deeply query">>)

C4_Witness ==
  /\ Validated
  /\ schema.type = "Enum"
  /\ query = Query_Keys(<<>>)
  /\ MessageContains(vq, <<"Cannot deeply query">>)

\* C5: for an Object schema with additional_properties = true and a Keys
\* query, a key that is not in properties is accepted whatever its sub-query,
\* and the query is Ok if and only if every key that is in properties
\* validates against that property's schema.
C5_AdditionalPropertiesOk ==
  (/\ Validated
   /\ schema.type = "Object" /\ schema.additional_properties
   /\ query.q = "Keys")
  => (vq.ok <=>
        \A i \in 1..Len(query.keys) :
          \A j \in 1..Len(schema.properties) :
            schema.properties[j][1] = query.keys[i][1]
              => validate_query(schema.properties[j][2], query.keys[i][2]).ok)

C5_Witness ==
  /\ Validated
  /\ schema.type = "Object" /\ schema.additional_properties
  /\ query.q = "Keys" /\ Len(query.keys) = 2
  /\ ~LM_contains_key(schema.properties, query.keys[1][1])
  /\ query.keys[1][2].q = "Keys" /\ Len(query.keys[1][2].keys) = 1
  /\ LM_contains_key(schema.properties, query.keys[2][1])
  /\ ~vq.ok

----------------------------------------------------------------------------
(* Claims about Service, checked under Spec *)

ServiceCall == call.op \in {"service_read", "service_read_one"}

DriverReads == {i \in 1..Len(call.events) : call.events[i].e = "driver_read"}

TypeKnown == call.args.type_name \in {"people", "posts"}

QueryValid ==
  validate_query(definition.types[call.args.type_name].schema, call.args.query)

\* C6: Service.read and Service.read_one call the driver only after the type
\* was found in the definition and validate_query of the query against the
\* type's schema returned Ok; for an unknown type the result is NotFound, for
\* a failed validation it is that error, and in both no driver read is issued.
C6_ValidatedBeforeDriver ==
  ServiceCall =>
    /\ \A i \in DriverReads :
         /\ TypeKnown /\ QueryValid.ok
         /\ \E j \in 1..(i - 1) : call.events[j] = [e |-> "get_type", found |-> TRUE]
         /\ \E j \in 1..(i - 1) : call.events[j] = [e |-> "validate_query", result |-> Ok]
    /\ ~TypeKnown => (DriverReads = {} /\ call.result.code = "NotFound")
    /\ (TypeKnown /\ ~QueryValid.ok) => (DriverReads = {} /\ call.result = QueryValid)
    /\ (TypeKnown /\ QueryValid.ok) => Cardinality(DriverReads) = 1

C6_Witness ==
  /\ call.op = "service_read"
  /\ call.args.type_name = "people"
  /\ call.args.query = Query_Keys(<< <<K_42, Query_All>> >>)
  /\ store["people"] # None
  /\ DriverReads = {}
  /\ MessageContains(call.result, K_42)

\* the connected driver a read of the type should go to: the driver of the
\* type, else the default driver of the definition, else the memory driver
DriverDue(type_name) ==
  LET own == definition.types[type_name].driver
  IN IF own # None /\ own[1] \in drivers THEN own[1]
     ELSE IF definition.driver # None /\ definition.driver[1] \in drivers
     THEN definition.driver[1]
     ELSE "memory"

\* C25: for a type that names no driver of its own, Service.read and
\* Service.read_one dispatch to the default driver of the definition when one
\* is configured and connected; the memory driver is used only when neither
\* the type nor the definition provides a connected driver.
C25_DefaultDriverUsed ==
  ServiceCall =>
    \A i \in DriverReads :
      definition.types[call.args.type_name].driver = None
      => call.events[i].driver = DriverDue(call.args.type_name)

----------------------------------------------------------------------------
(* Claims about the drivers, checked under SpecDriver *)

StoredObjects(name) == IF store[name] = None THEN <<>> ELSE store[name][1]

Matching(name, cond) ==
  SelectSeq(StoredObjects(name), LAMBDA object : is_true(cond, Value_Object(object)))

\* C7: the default read_one issues one read with a range of limit 1 and the
\* default (empty) sort; it returns the value when that read yields exactly
\* one, fails with NotFound when it yields none, and fails with Internal when
\* it yields more than one despite the limit.
C7_ReadOneOutcomes ==
  call.op = "read_one" =>
    /\ Len(call.events) = 1
    /\ call.events[1].e = "driver_read"
    /\ call.events[1].request.name = call.name
    /\ call.events[1].request.condition = call.condition
    /\ call.events[1].request.sorts = <<>>
    /\ call.events[1].request.range = [limit |-> <<1>>, offset |-> <<>>]
    /\ call.read.ok =>
         /\ Len(call.read.values) = 1 => call.result = [ok |-> TRUE, value |-> call.read.values[1]]
         /\ Len(call.read.values) = 0 => (~call.result.ok /\ call.result.code = "NotFound")
         /\ Len(call.read.values) > 1 => (~call.result.ok /\ call.result.code = "Internal")

C7_Witness ==
  /\ call.op = "read_one"
  /\ call.driver = "backend"
  /\ call.read.ok /\ Len(call.read.values) = 2
  /\ call.result.code = "Internal"

\* C8: when the condition matches more than one stored value, read_one on the
\* memory driver (whose read honours the limit) returns the first of the
\* matching values in stored order, the driver's default order, and does not
\* fail.
C8_ReadOneFirstMatch ==
  (/\ call.op = "read_one" /\ call.driver = "memory"
   /\ call.read.ok
   /\ Len(Matching(call.name, call.condition)) > 1)
  => call.result = [ok |-> TRUE, value |-> Matching(call.name, call.condition)[1]]

C8_Witness ==
  /\ call.op = "read_one" /\ call.driver = "memory"
  /\ call.condition = A_is_1
  /\ Len(Matching(call.name, call.condition)) > 1
  /\ call.result = [ok |-> TRUE, value |-> Matching(call.name, call.condition)[1]]

\* the slice [min(s, n), min(s + l, n)) of a sequence of length n, s and l
\* being unbounded naturals (absent skip = 0, absent limit = unbounded)
VisibleSlice(seq, range) ==
  LET n == Len(seq)
      s == IF range.offset = <<>> THEN 0 ELSE range.offset[1]
      from == IF s < n THEN s ELSE n
      to == IF range.limit = <<>> THEN n
            ELSE IF s + range.limit[1] < n THEN s + range.limit[1] ELSE n
  IN [i \in 1..(to - from) |-> seq[from + i]]

\* a memory read that sorts nothing, of a collection that exists; a panic that
\* the range of the call cannot have caused (a poisoned store) is left out
UnsortedMemoryRead ==
  /\ call.op = "memory_read"
  /\ call.sorts = <<>>
  /\ store[call.name] # None
  /\ (call.result = Panic => Range_end_overflows(call.range))

\* C9: for a Range with skip s and limit l applied by a read to a result
\* sequence of length n, the values returned are exactly the elements
\* [min(s, n), min(s + l, n)) of that sequence in their original order, for
\* all s, l >= 0.
C9_RangeIsVisibleSlice ==
  UnsortedMemoryRead =>
    call.result = [ok |-> TRUE,
                   values |-> VisibleSlice(Matching(call.name, call.condition), call.range)]

\* what holds of the code: the same, for the ranges whose s + l fits a usize
Range_slice_without_overflow ==
  (UnsortedMemoryRead /\ ~Range_end_overflows(call.range) /\ call.result # Panic) =>
    call.result = [ok |-> TRUE,
                   values |-> VisibleSlice(Matching(call.name, call.condition), call.range)]

\* the first rule that orders a and b strictly, rules that compare them equal
\* or cannot order them being passed over; "Equal" when no rule decides
RECURSIVE LexicographicOrder(_, _, _)
LexicographicOrder(sorts, a, b) ==
  IF Len(sorts) = 0 THEN "Equal"
  ELSE LET ord == Sort_partial_cmp(sorts[1], a, b)
       IN IF ord = <<"Less">> \/ ord = <<"Greater">> THEN ord[1]
          ELSE LexicographicOrder(Tail(sorts), a, b)

\* C10: in a sorted read the first rule orders the records, a later rule
\* decides two records when every earlier rule leaves them tied (equal, or
\* not ordered), and when no rule decides they keep their stored order.
\* Stated for the reads that sort exactly two records x, y (stored in that
\* order), on which every stable sort agrees.
C10_LaterRulesBreakTies ==
  (/\ call.op = "memory_read" /\ call.result.ok
   /\ call.range = [limit |-> <<>>, offset |-> <<>>]
   /\ Len(Matching(call.name, call.condition)) = 2)
  => LET x == Matching(call.name, call.condition)[1]
         y == Matching(call.name, call.condition)[2]
     IN call.result.values =
          IF LexicographicOrder(call.sorts, x, y) = "Greater" THEN <<y, x>> ELSE <<x, y>>

\* C24: Memory.read applies the condition and the sort before the range: its
\* result is the range slice (skip, then limit) of the records that satisfy
\* the condition after they were sorted by the sort rules, as a find of a
\* document database with the same filter, sort, skip and limit gives.
\* Stated for the reads whose range does not overflow and whose rules order
\* every two matching records as the lexicographic order does.
C24_SortBeforeRange ==
  (/\ call.op = "memory_read" /\ call.result.ok
   /\ store[call.name] # None
   /\ ~Range_end_overflows(call.range)
   /\ \A i, j \in 1..Len(Matching(call.name, call.condition)) :
        LET x == Matching(call.name, call.condition)[i]
            y == Matching(call.name, call.condition)[j]
        IN sort_fold(call.sorts, x, y) = LexicographicOrder(call.sorts, x, y))
  => call.result.values =
       VisibleSlice(sorted_by(Matching(call.name, call.condition), call.sorts), call.range)

----------------------------------------------------------------------------
(* Claims about threads sharing one Memory, checked under SpecThreads *)

\* between the lock() that returned the guard and the drop of the guard
InsideStore(t) == threads[t].pc \in {"contains_key", "append", "get", "unlock"}

\* C11: at most one Memory.read or Memory.append_to_collection is inside the
\* store at any time, under every interleaving of the threads sharing one
\* Memory, and an operation is inside the store only while it holds the lock.
C11_OneOperationInsideStore ==
  /\ Cardinality({t \in Threads : InsideStore(t)}) <= 1
  /\ \A t \in Threads : InsideStore(t) => mutex = <<t>>
  /\ \A t \in Threads : mutex = <<t>> => InsideStore(t)

C11_Witness ==
  /\ threads["t1"].pc = "append"
  /\ mutex = <<"t1">>
  /\ threads["t2"].pc = "lock"
  /\ threads["t2"].op.f = "read"
  /\ threads["t2"].op.name = threads["t1"].op.name

\* a thread whose Memory::read has produced its sequence
HasRead(thr) == thr.pc \in {"unlock", "done"} /\ thr.op.f = "read" /\ thr.result.ok

\* the step of a thread from pc a to pc b
Steps(t, a, b) == threads[t].pc = a /\ threads'[t].pc = b

\* C28: the sequence Memory.read returns is a snapshot taken while the store
\* lock is held: it is computed from the store of the moment the reader is
\* inside the lock, objects appended with append_to_collection afterwards
\* never appear in it and never remove or reorder its elements, and read
\* leaves the store unchanged; reading an unknown collection name returns
\* an empty sequence and does not create the collection.
C28_ReadIsSnapshot ==
  [][\A t \in Threads :
       /\ threads[t].pc = "get" /\ threads'[t].pc # "get"
          => /\ mutex = <<t>>
             /\ store' = store
             /\ store[threads[t].op.name] = None
                  => threads'[t].result = OkValues(<<>>)
             /\ threads'[t].result.ok
                  => /\ store[threads[t].op.name] # None
                        => \A i \in 1..Len(threads'[t].result.values) :
                             \E j \in 1..Len(store[threads[t].op.name][1]) :
                               threads'[t].result.values[i] = store[threads[t].op.name][1][j]
                     /\ threads'[t].result =
                          Memory_read(store, FALSE, threads[t].op.name, threads[t].op.condition,
                                      threads[t].op.sorts, threads[t].op.range, FALSE)
       /\ HasRead(threads[t]) /\ threads'[t].pc \in {"unlock", "done"}
          => threads'[t].result = threads[t].result
    ]_vars

\* a reader holds a sequence of one object while the other thread has appended
\* to the collection it read
C28_Witness ==
  /\ HasRead(threads["t1"]) /\ threads["t1"].pc = "done"
  /\ Len(threads["t1"].result.values) = 1
  /\ threads["t2"].pc = "unlock" /\ threads["t2"].op.f = "append"
  /\ threads["t2"].op.name = threads["t1"].op.name
  /\ Len(store[threads["t1"].op.name][1]) = 2

\* whether the store holds what it held before, every collection in place
\* and in its order, except for what is put in the collection of one name
StoreKeepsExcept(name) ==
  \A n \in CollectionNames \ {name} : store'[n] = store[n]

\* C29: after any interleaving of concurrent append_to_collection calls on
\* one Memory, including several first-time appends to the same collection
\* that does not exist yet, the collection holds every appended object
\* exactly once, the objects of each call contiguous and in their order, and
\* the create-if-missing step loses the objects of no call; the objects of
\* the other collections are untouched. Step by step: the create-if-missing
\* step keeps a collection that exists and makes an empty one otherwise, the
\* append step puts the objects of the call once, together and in their
\* order, at the end of what the collection held, and no other step of any
\* thread changes the store.
C29_AppendsKept ==
  [][/\ \A t \in Threads :
          /\ Steps(t, "contains_key", "append")
             => /\ StoreKeepsExcept(threads[t].op.name)
                /\ store'[threads[t].op.name] =
                     (IF store[threads[t].op.name] = None
                      THEN Some(<<>>) ELSE store[threads[t].op.name])
          /\ Steps(t, "append", "unlock")
             => /\ StoreKeepsExcept(threads[t].op.name)
                /\ store[threads[t].op.name] # None
                /\ store'[threads[t].op.name] =
                     Some(store[threads[t].op.name][1] \o threads[t].op.objects)
                /\ threads'[t].result = Ok
     /\ store' # store
          => \E t \in Threads :
               Steps(t, "contains_key", "append") \/ Steps(t, "append", "unlock")
    ]_vars

\* two first-time appends to one collection that did not exist: the first has
\* put its two objects and returned, the second holds the lock and has put
\* its object after them
C29_Witness ==
  /\ threads["t1"].pc = "done" /\ threads["t1"].op.f = "append"
  /\ Len(threads["t1"].op.objects) = 2
  /\ threads["t2"].pc = "unlock" /\ threads["t2"].op.f = "append"
  /\ threads["t2"].op.name = threads["t1"].op.name
  /\ store[threads["t1"].op.name] =
       Some(threads["t1"].op.objects \o threads["t2"].op.objects)

----------------------------------------------------------------------------
(* Claims about the MongoDB driver, checked under SpecMongo *)

\* C12: if the backend fails when the find command is dispatched or while it
\* yields any result document, the caller of MongoDB read observes an error
\* of code Internal for that read; a failed document is never skipped so that
\* the caller receives a shortened sequence that looks successful.
C12_BackendFailureSurfaces ==
  (/\ Returned /\ input.f = "read"
   /\ \/ ~input.dispatched
      \/ \E i \in 1..Len(input.cursor) : ~input.cursor[i].ok)
  => (~returned.ok /\ returned.code = "Internal")

\* the sub-conditions of a Keys tree that are not themselves Keys, depth
\* first in the order of the maps, each with the path of keys that leads to it
RECURSIVE ConditionLeaves(_, _)
ConditionLeaves(pointer, keys) ==
  IF Len(keys) = 0 THEN <<>>
  ELSE LET path == Append(pointer, keys[1][1])
           first == IF keys[1][2].c = "Keys" THEN ConditionLeaves(path, keys[1][2].keys)
                    ELSE << <<path, keys[1][2]>> >>
       IN first \o ConditionLeaves(pointer, Tail(keys))

\* C13: condition_to_filter compiles a Keys tree to one flat document: every
\* sub-condition that is not itself Keys becomes one entry, keyed by the
\* dot-joined path of keys from the outermost Keys down to it and valued by
\* the compiled sub-condition; the entries are in depth-first order; no
\* nested sub-document stands for a Keys directly inside a Keys.
C13_KeysFlattenToLeaves ==
  (Returned /\ input.f = "condition_to_filter" /\ input.condition.c = "Keys")
  => LET leaves == ConditionLeaves(<<>>, input.condition.keys)
     IN returned =
          Bson_Document([i \in 1..Len(leaves) |->
                           <<Pointer_join(leaves[i][1]), condition_to_filter(leaves[i][2])>>])

\* C14: for every Condition built from True, False, Not, And, Or, Equal and
\* Keys and every record without binary content, the filter produced by
\* condition_to_filter accepts the record under the backend's filter
\* semantics if and only if is_true of the condition accepts the equivalent
\* in-memory Value.
C14_FilterAgreesWithIsTrue ==
  (Returned /\ input.f = "find_one")
  => ((returned.backend = "accept") <=> returned.direct)

\* C15: the conversion of a Value to the backend's native value, and of a
\* Value to a native document, is total: it returns a native value for every
\* Value, Objects and Objects nested in Objects or Arrays included.
C15_ConversionTotal ==
  (Returned /\ input.f \in {"into_bson", "into_document"})
  => returned # StackOverflow

\* the paths of the All leaves of a query
RECURSIVE QueryLeaves(_, _)
QueryLeaves(pointer, q) ==
  IF q.q = "All" THEN {pointer}
  ELSE UNION {QueryLeaves(Append(pointer, q.keys[i][1]), q.keys[i][2]) : i \in 1..Len(q.keys)}

\* C16: the projection of query_to_projection always maps "_id" to 0; for
\* Query All it holds nothing else; for a Keys query it holds besides exactly
\* one entry per All leaf, keyed by the dot-joined path of the leaf and
\* mapped to 1.
C16_ProjectionOfLeaves ==
  (Returned /\ input.f = "query_to_projection")
  => LET leaves == IF input.query = Query_All THEN {} ELSE QueryLeaves(<<>>, input.query)
     IN /\ returned.b = "Document"
        /\ Document_get(returned.d, F_id) = Some(Bson_I32(0))
        /\ Len(returned.d) = 1 + Cardinality(leaves)
        /\ \A leaf \in leaves : Document_get(returned.d, Pointer_join(leaf)) = Some(Bson_I32(1))

\* C17: sort_rules_to_sort gives an ordered native document with one entry
\* per SortRule, in the order of the rules: the key is the dot-joined
\* property path of the rule, the value +1 for an ascending and -1 for a
\* descending rule; the number and the order of the entries are those of the
\* rules, for every rule list.
C17_OneEntryPerRule ==
  (Returned /\ input.f = "sort_rules_to_sort")
  => returned =
       Bson_Document([i \in 1..Len(input.sort) |->
                        <<Pointer_join(input.sort[i].property),
                          Bson_I32(IF input.sort[i].ascending THEN 1 ELSE -1)>>])

\* the number of entries of a flat document that a leaf of the tree has put:
\* every entry of a filter, the entries mapped to 1 of a projection
LeafEntries(document) ==
  IF input.f = "condition_to_filter" THEN Len(document)
  ELSE Cardinality({i \in 1..Len(document) : document[i][2] = Bson_I32(1)})

\* C30: flattening loses no leaf: for every Keys condition passed to
\* condition_to_filter and every Keys query passed to query_to_projection,
\* the flat document has exactly one entry per leaf of the tree (per
\* sub-condition that is not Keys, per All sub-query), so that two different
\* key paths are never mapped to the same dotted key and one entry never
\* overwrites another.
C30_NoLeafLost ==
  /\ (Returned /\ input.f = "condition_to_filter" /\ input.condition.c = "Keys")
     => LET leaves == ConditionLeaves(<<>>, input.condition.keys)
        IN /\ returned.b = "Document"
           /\ LeafEntries(returned.d) = Len(leaves)
           /\ \A i, j \in 1..Len(leaves) :
                Pointer_join(leaves[i][1]) = Pointer_join(leaves[j][1]) => i = j
  /\ (Returned /\ input.f = "query_to_projection" /\ input.query.q = "Keys")
     => LET leaves == QueryLeaves(<<>>, input.query)
        IN /\ returned.b = "Document"
           /\ LeafEntries(returned.d) = Cardinality(leaves)
           /\ \A p1, p2 \in leaves : Pointer_join(p1) = Pointer_join(p2) => p1 = p2

----------------------------------------------------------------------------
(* Claims about the functions of Value and Schema, checked under SpecValue *)

\* a key resolves in a value: an existing key of an Object, or a key that
\* parses to an index below the length of an Array
KeyResolves(value, key) ==
  \/ value.t = "Object" /\ \E i \in 1..Len(value.o) : value.o[i][1] = key
  \/ value.t = "Array" /\ parse_usize(key) # None /\ parse_usize(key)[1] < Len(value.a)

ValueAt(value, key) ==
  IF value.t = "Object"
  THEN value.o[CHOOSE i \in 1..Len(value.o) : value.o[i][1] = key][2]
  ELSE value.a[parse_usize(key)[1] + 1]

\* the values passed on the way along a pointer, up to the first key that
\* does not resolve
RECURSIVE Walk(_, _)
Walk(value, pointer) ==
  IF Len(pointer) = 0 \/ ~KeyResolves(value, pointer[1]) THEN <<value>>
  ELSE <<value>> \o Walk(ValueAt(value, pointer[1]), Tail(pointer))

\* C18: Value get by pointer returns the value at the location exactly when
\* every key of the pointer resolves in turn (an existing key of an Object,
\* or a key that parses to an index below the length of an Array), and
\* not-found as soon as a key addresses a non-container, an out-of-range
\* index or a non-numeric key of an Array; the empty pointer returns the
\* value itself.
C18_GetByPointer ==
  (Returned /\ input.f = "get_path")
  => LET walk == Walk(input.value, input.pointer)
     IN /\ returned = (IF Len(walk) = Len(input.pointer) + 1
                       THEN Some(walk[Len(walk)]) ELSE None)
        /\ Len(input.pointer) = 0 => returned = Some(input.value)

C18_Witness ==
  /\ Returned /\ input.f = "get_path"
  /\ input.value.t = "Object" /\ Len(input.pointer) = 3
  /\ returned # None
  /\ KeyResolves(input.value, input.pointer[1])
  /\ ValueAt(input.value, input.pointer[1]).t = "Array"

SetFails == ~returned.ok

\* the entries of an Object other than the one of a key, in their order
OtherEntries(o, key) == SelectSeq(o, LAMBDA entry : entry[1] # key)

SetSucceeds ==
  CASE input.value.t = "Array" ->
         /\ returned.ok /\ returned.value.t = "Array"
         /\ Len(returned.value.a) = Len(input.value.a)
         /\ \A i \in 1..Len(input.value.a) :
              returned.value.a[i] =
                (IF i = parse_usize(input.key)[1] + 1 THEN input.new ELSE input.value.a[i])
    [] input.value.t = "Object" ->
         /\ returned.ok /\ returned.value.t = "Object"
         /\ KeyResolves(returned.value, input.key)
         /\ ValueAt(returned.value, input.key) = input.new
         /\ OtherEntries(returned.value.o, input.key) = OtherEntries(input.value.o, input.key)
         /\ Len(returned.value.o) =
              Len(input.value.o) + (IF KeyResolves(input.value, input.key) THEN 0 ELSE 1)
    [] OTHER -> FALSE

C20_SchemaGet ==
  (Returned /\ input.f = "schema_get")
  => LET s == input.schema
         pointer == input.pointer
     IN IF Len(pointer) = 0 THEN returned = Some(s)
        ELSE CASE s.type = "Array" ->
                    IF OnlyDecimalDigits(pointer[1])
                    THEN returned = Schema_get(s.items, Tail(pointer))
                    ELSE returned = None
               [] s.type = "Object" ->
                    IF \E i \in 1..Len(s.properties) : s.properties[i][1] = pointer[1]
                    THEN returned =
                           Schema_get(s.properties[CHOOSE i \in 1..Len(s.properties) :
                                                     s.properties[i][1] = pointer[1]][2],
                                      Tail(pointer))
                    ELSE returned = None
               [] OTHER -> returned = None

C20_Witness ==
  /\ Returned /\ input.f = "schema_get"
  /\ input.schema.type = "Array" /\ Len(input.pointer) = 2
  /\ input.pointer[1] = K_2
  /\ returned = Some(Schema_boolean)

\* a query is the chain of a pointer: one Keys node per key, each of exactly
\* one entry, the keys in the order of the pointer, All at the end
RECURSIVE IsChainOf(_, _)
IsChainOf(q, pointer) ==
  IF Len(pointer) = 0 THEN q = Query_All
  ELSE /\ q.q = "Keys" /\ Len(q.keys) = 1
       /\ q.keys[1][1] = pointer[1]
       /\ IsChainOf(q.keys[1][2], Tail(pointer))

\* C21: Query::from(pointer) is Query::All for the empty pointer and
\* otherwise a chain of Keys nodes as deep as the pointer is long, each node
\* of exactly one key, the keys from the outermost to the innermost node
\* being the keys of the pointer in order, the innermost value being All.
C21_QueryFromPointer ==
  (Returned /\ input.f = "query_from")
  => /\ IsChainOf(returned, input.pointer)
     /\ Len(input.pointer) = 0 => returned = Query_All

C21_Witness ==
  /\ Returned /\ input.f = "query_from"
  /\ input.pointer = <<K_a, K_b, K_a>>
  /\ returned = Query_Keys(<< <<K_a, Query_Keys(<< <<K_b, Query_Keys(<< <<K_a, Query_All>> >>)>> >>)>> >>)

\* C22: Condition::is_true evaluates structurally: True is true and False is
\* false of every value; Not(c) is true exactly when c is false; And(cs)
\* exactly when every member is true (true of the empty list); Or(cs)
\* exactly when some member is true (false of the empty list); Key(k, c)
\* exactly when the value has an entry at k and c is true of that entry
\* (false for a missing key and for a value that is no container);
\* Equal(v) exactly when the value equals v; is_false is the complement.
C22_IsTrueStructural ==
  (Returned /\ input.f = "is_true")
  => LET cond == input.condition
         value == input.value
     IN /\ returned.is_false = ~returned.is_true
        /\ returned.is_true =
             CASE cond.c = "True" -> TRUE
               [] cond.c = "False" -> FALSE
               [] cond.c = "Not" -> is_false(cond.cond, value)
               [] cond.c = "And" -> \A i \in 1..Len(cond.conds) : is_true(cond.conds[i], value)
               [] cond.c = "Or" -> \E i \in 1..Len(cond.conds) : is_true(cond.conds[i], value)
               [] cond.c = "Key" ->
                    /\ KeyResolves(value, cond.key)
                    /\ is_true(cond.cond, ValueAt(value, cond.key))
               [] cond.c = "Equal" -> Value_eq(value, cond.value)

C22_Witness ==
  /\ Returned /\ input.f = "is_true"
  /\ input.condition.c = "Key" /\ input.condition.cond.c = "Key"
  /\ input.value.t = "Object"
  /\ ~KeyResolves(input.value, input.condition.key)
  /\ returned.is_false

\* C23: serializing a Value to JSON text and deserializing that text gives a
\* Value equal to the original, for every Value of every variant (Null,
\* Boolean, I64, F64, String, Array, Object, nested to any depth).
C23_JsonRoundTrip ==
  (Returned /\ input.f = "json")
  => /\ returned.value.ok
     /\ Value_eq(returned.value.value, input.value)
\* C26: for every schema and pointer, whenever Schema::get(pointer) is present,
\* validate_query of the schema and Query::from(pointer) is Ok.
C26_PresentPointerValidates ==
  (Returned /\ input.f = "validate_pointer" /\ returned.got # None)
    => returned.valid.ok

\* a pointer of two keys through an Array schema, by a digit outside ASCII, to
\* a property of the items: present, and its query validates
C26_Witness ==
  /\ Returned /\ input.f = "validate_pointer"
  /\ input.schema.type = "Array"
  /\ input.pointer = <<K_u3, K_a>>
  /\ returned.got # None
  /\ returned.valid.ok
\* whether two keys address the same entry of a container: the same index of
\* an Array, the same key of an Object
SameEntry(value, j, k) ==
  IF value.t = "Array"
  THEN parse_usize(j) # None /\ parse_usize(j) = parse_usize(k)
  ELSE j = k

\* the keys of an Object, in their order
KeysOf(o) == [i \in 1..Len(o) |-> o[i][1]]

\* C27: after a successful v.set(k, x) giving r, r.get(k) is x and r.get(j) is
\* v.get(j) for every key j that addresses another entry than k; an Array
\* keeps its length and the order of its elements; an Object keeps the keys
\* and the order it had and gains at most the key k, appended last when it
\* is new. When set fails, no modified value is produced.
C27_SetFrame ==
  (Returned /\ input.f = "set")
  => IF returned.ok
     THEN /\ Value_get(returned.value, input.key) = Some(input.new)
          /\ \A j \in PointerKeys :
               ~SameEntry(input.value, j, input.key)
                 => Value_get(returned.value, j) = Value_get(input.value, j)
          /\ returned.value.t = input.value.t
          /\ CASE input.value.t = "Array" ->
                    /\ Len(returned.value.a) = Len(input.value.a)
                    /\ \A i \in 1..Len(input.value.a) :
                         Some(i - 1) # parse_usize(input.key)
                           => returned.value.a[i] = input.value.a[i]
               [] input.value.t = "Object" ->
                    KeysOf(returned.value.o) =
                      (IF LM_contains_key(input.value.o, input.key)
                       THEN KeysOf(input.value.o)
                       ELSE Append(KeysOf(input.value.o), input.key))
               [] OTHER -> FALSE
     ELSE "value" \notin DOMAIN returned

\* a key that an Object of three keys already has, not the last one, is set to
\* another value
C27_Witness ==
  /\ Returned /\ input.f = "set"
  /\ input.value.t = "Object" /\ Len(input.value.o) = 3
  /\ input.key = input.value.o[1][1]
  /\ returned.ok /\ returned.value # input.value

====
